---- MODULE Spec2Model ----
(***************************************************************************)
(* The CSR improvement loop of roche-one: improve_csr_until_confident      *)
(* (main.py), the loop of run_full_pipeline_stream (app.py), and the score *)
(* extractors of the reviewer and the compliance agent.                    *)
(*                                                                         *)
(* Scores are Python floats.  They are modelled in fixed point with one    *)
(* binary fractional digit: the integer n stands for the float n / 2, so   *)
(* F(50) = 100 is 50.0 and 65 is 32.5.  Every score that the extractors    *)
(* return is a whole number, so the mean of two of them is a multiple of   *)
(* 0.5 and the representation is exact.                                    *)
(*                                                                         *)
(* A text is a sequence of tokens: a score label, ":", a whitespace        *)
(* character, a decimal digit, or another character.  A path is the        *)
(* sequence of the tokens of its string: a dot, a slash, or a piece of the *)
(* string that holds neither.                                              *)
(***************************************************************************)
EXTENDS Integers, Sequences, FiniteSets, TLC

\* ------------------------------------------------------------------ bounds
\* Largest max_iterations the configurations are drawn from.
MaxIterations == 3
\* Longest evaluator text of the extractor specification.
MaxLen == 5
\* Largest max_iterations of the comparison of the two entry points.
MaxComparedIterations == 2
\* max_iterations of the two concurrent runs.
MaxConcurrentIterations == 1
\* Largest max_iterations of the runs followed snapshot by snapshot.
MaxStreamIterations == 5

\* ------------------------------------------------------- fixed-point floats
\* The float n.0
F(n) == 2 * n

\* --------------------------------------------------------- score extraction
COMPLETENESS_LABEL == "OVERALL_COMPLETENESS_SCORE"
COMPLIANCE_LABEL == "OVERALL_COMPLIANCE_SCORE"

Digits == <<"0", "1", "2", "3", "4", "5", "6", "7", "8", "9">>

\* The white-space characters a text of the model can hold: space, tab, line
\* feed, carriage return, form feed, then vertical tab, the four separators
\* U+001C to U+001F, next line U+0085 and the no-break space U+00A0, which \s
\* of a str pattern and str.strip() accept as well
WhiteSpace == {" ", "\t", "\n", "\r", "\f",
               "", "", "", "", "", "", " "}

\* \s of the pattern
IsWs(c) == c \in WhiteSpace

\* \d of the pattern
IsDigit(c) == \E d \in 1..10 : Digits[d] = c

DigitVal(c) == (CHOOSE d \in 1..10 : Digits[d] = c) - 1

\* \s* from position i: the first position that holds no whitespace
RECURSIVE SkipWs(_, _)
SkipWs(text, i) ==
    IF i <= Len(text) /\ IsWs(text[i]) THEN SkipWs(text, i + 1) ELSE i

\* \d+ from position i, greedy: the first position after the run of digits
RECURSIVE DigitsEnd(_, _)
DigitsEnd(text, i) ==
    IF i <= Len(text) /\ IsDigit(text[i]) THEN DigitsEnd(text, i + 1) ELSE i

\* The pattern  LABEL\s*:\s*(\d+)  tried at position i: group 1 as <<from, to>>,
\* or <<>> when the pattern does not match there.
MatchAt(text, label, i) ==
    IF text[i] # label THEN <<>>
    ELSE LET a == SkipWs(text, i + 1) IN
         IF a > Len(text) \/ text[a] # ":" THEN <<>>
         ELSE LET b == SkipWs(text, a + 1)
                  e == DigitsEnd(text, b)
              IN IF e > b THEN <<b, e - 1>> ELSE <<>>

\* re.search: the leftmost position at which the pattern matches
RECURSIVE re_search(_, _, _)
re_search(text, label, i) ==
    IF i > Len(text) THEN <<>>
    ELSE IF MatchAt(text, label, i) # <<>> THEN MatchAt(text, label, i)
    ELSE re_search(text, label, i + 1)

\* float(match.group(1)) of a digit string, as a whole number
RECURSIVE DecValue(_)
DecValue(ds) ==
    IF ds = <<>> THEN 0
    ELSE 10 * DecValue(SubSeq(ds, 1, Len(ds) - 1)) + DigitVal(ds[Len(ds)])

Min(a, b) == IF a <= b THEN a ELSE b
Max(a, b) == IF a >= b THEN a ELSE b

\* A clamp that keeps the lower bound only
ClampNoUpper(score) == Max(F(0), score)

\* score = max(0.0, min(score, 100.0))
Clamp(score) == Max(F(0), Min(score, F(100)))

\* (variant: a text without a score line counts as a full score)
ParseScoreDefaultFull(text, label) ==
    LET m == re_search(text, label, 1) IN
    IF m = <<>> THEN F(100)
    ELSE Clamp(F(DecValue(SubSeq(text, m[1], m[2]))))

\* The body shared by the two _parse_score_from_text functions
ParseScore(text, label) ==
    LET m == re_search(text, label, 1) IN
    IF m = <<>> THEN F(0)
    ELSE Clamp(F(DecValue(SubSeq(text, m[1], m[2]))))

\* agents/reviewer_agent.py
ReviewerParseScore(text) == ParseScore(text, COMPLETENESS_LABEL)

\* A compliance extractor that looks for the completeness label
ComplianceParseScoreWrongLabel(text) == ParseScore(text, COMPLETENESS_LABEL)

\* agents/compliance_agent.py
ComplianceParseScore(text) == ParseScore(text, COMPLIANCE_LABEL)

\* -------------------------------------------------------------------- paths
\* A path is the sequence of its tokens, where every dot and every slash of
\* the string is a token of its own ("out.d/csr.docx" is <<"out", ".", "d",
\* "/", "csr", ".", "docx">>) and the other tokens hold neither and are not
\* empty.
\* Path(p): pathlib's reading of the string p.  The root is "/" for a leading
\* slash ("//" for exactly two); the parts are the pieces between slashes,
\* without the empty ones and the single dots (".." stays); the name is the
\* last part, empty when there is none; the stem is the name without its final
\* suffix, and a name that starts at its last dot (".docx") or ends in it
\* ("csr.") is its own stem; the parent is the path without its last part and
\* the root or "." where there is no part to drop.  name, stem and parent are
\* the strings of .name, .stem and str(.parent)
Path(p) ==
    LET RECURSIVE Lead(_)
        Lead(k) == IF k <= Len(p) /\ p[k] = "/" THEN Lead(k + 1) ELSE k - 1
        Root(n) == IF n = 0 THEN <<>> ELSE IF n = 2 THEN <<"/", "/">> ELSE <<"/">>
        Keep(c) == IF c = <<>> \/ c = <<".">> THEN <<>> ELSE <<c>>
        RECURSIVE Parts(_, _)
        Parts(k, c) == IF k > Len(p) THEN Keep(c)
                       ELSE IF p[k] = "/" THEN Keep(c) \o Parts(k + 1, <<>>)
                       ELSE Parts(k + 1, Append(c, p[k]))
        RECURSIVE Join(_)
        Join(ps) == IF ps = <<>> THEN <<>>
                    ELSE IF Len(ps) = 1 THEN ps[1]
                    ELSE ps[1] \o <<"/">> \o Join(Tail(ps))
        Str(root, ps) == IF root = <<>> /\ ps = <<>> THEN <<".">> ELSE root \o Join(ps)
        RECURSIVE rfind(_, _)
        rfind(name, j) == IF j = 0 \/ name[j] = "." THEN j ELSE rfind(name, j - 1)
        Stem(name, i) == IF 1 < i /\ i < Len(name) THEN SubSeq(name, 1, i - 1) ELSE name
        Name(parts) == IF parts = <<>> THEN <<>> ELSE parts[Len(parts)]
        Read(root, parts, name) ==
            [name |-> name,
             stem |-> Stem(name, rfind(name, Len(name))),
             parent |-> IF parts = <<>> THEN Str(root, parts)
                        ELSE Str(root, SubSeq(parts, 1, Len(parts) - 1))]
        Parse(root, parts) == Read(root, parts, Name(parts))
    IN  Parse(Root(Lead(1)), Parts(1, <<>>))

\* str(dir / name) for a directory as Path gives it and a file name: the name
\* alone in the directory ".", and no second slash after a root
JoinPath(dir, name) ==
    IF dir = <<".">> THEN name
    ELSE IF dir[Len(dir)] = "/" THEN dir \o name
    ELSE dir \o <<"/">> \o name

\* f"{iteration}": the decimal digits of a natural number
RECURSIVE Dec(_)
Dec(n) ==
    IF n < 10 THEN <<Digits[n + 1]>>
    ELSE Dec(n \div 10) \o <<Digits[(n % 10) + 1]>>

\* (variant: one output path for every iteration)
IterCsrPathFixed(dir, stem, i) == JoinPath(dir, stem \o <<"_revised", ".", "docx">>)

\* (variant: the review report takes the name of the document version)
IterReviewPathAsCsr(dir, stem, i) ==
    JoinPath(dir, stem \o <<"_v">> \o Dec(i) \o <<".", "docx">>)

\* str(csr_dir / f"{csr_stem}_v{iteration}.docx")
IterCsrPath(dir, stem, i) == JoinPath(dir, stem \o <<"_v">> \o Dec(i) \o <<".", "docx">>)

\* str(csr_dir / f"{csr_stem}_review_v{iteration}.docx")
IterReviewPath(dir, stem, i) ==
    JoinPath(dir, stem \o <<"_review", "_v">> \o Dec(i) \o <<".", "docx">>)

\* str(csr_dir / f"{csr_stem}_compliance_v{iteration}.docx")
IterCompliancePath(dir, stem, i) ==
    JoinPath(dir, stem \o <<"_compliance", "_v">> \o Dec(i) \o <<".", "docx">>)

\* ------------------------------------------------------------ loop arithmetic
\* A range that stops one short
RangeShort(max) == 1..(max - 1)

\* A range that runs one iteration too many
RangeLong(max) == 1..(max + 1)

\* range(1, max_iterations + 1)
Range(max) == 1..max

\* An integer mean: (a + b) // 2
CombinedFloor(review, compliance) == F((review + compliance) \div (2 * 2))

\* (review_score + compliance_score) / 2.0
Combined(review, compliance) == (review + compliance) \div 2

\* A stopping rule with a strict comparison
TargetReachedStrict(score, target) == score > target

\* final_score >= target_score
TargetReached(score, target) == score >= target

\* ------------------------------------------------------------------- inputs
\* The configurations: max_iterations is any integer of the range and the
\* target any float of the set (-0.5, 0.0, 32.5, 75.0, 100.5)
MaxIterationsValues == (-1)..MaxIterations
TargetValues == {F(0) - 1, F(0), F(32) + 1, F(75), F(100) + 1}

\* config.py: where the composer writes the initial document
GENERATED_CSR_PATH == <<"generated_csr", ".", "docx">>

\* The documents improve_csr_until_confident is called on: generated_csr.docx,
\* generated_csr_v1.docx, out.d/csr (a dot in the directory and none in the
\* name) and ./generated_csr.docx
InitialPaths ==
    { GENERATED_CSR_PATH,
      <<"generated_csr", "_v", "1", ".", "docx">>,
      <<"out", ".", "d", "/", "csr">>,
      <<".", "/", "generated_csr", ".", "docx">> }

\* run_pipeline: target_score=80.0, max_iterations=3
PipelineMaxIterations == 3
PipelineTarget == F(80)

\* What the generation service answers to the reviewer: a text without a score
\* line, one with the other evaluator's label, scores of 15 and of 150
ReviewTexts ==
    { <<"x">>,
      <<COMPLIANCE_LABEL, ":", " ", "5", "0">>,
      <<COMPLETENESS_LABEL, ":", " ", "1", "5">>,
      <<"x", COMPLETENESS_LABEL, " ", ":", "1", "5", "0">> }

\* What it answers to the compliance agent: an empty text, a score line of the
\* other label, a score of 50 followed by a second score line
ComplianceTexts ==
    { <<>>,
      <<COMPLETENESS_LABEL, ":", " ", "1", "0", "0">>,
      <<COMPLIANCE_LABEL, ":", "5", "0", " ", COMPLIANCE_LABEL, ":", "9">> }

\* Where a call of an agent may raise: reading its inputs, the request to the
\* generation service, writing its output
FailPoints == {"none", "read", "llm", "write"}

\* config.py: the paths the agents fall back on
REVIEW_REPORT_PATH == <<"default_review", ".", "docx">>
COMPLIANCE_REPORT_PATH == <<"default_compliance", ".", "docx">>
REVISED_CSR_PATH == <<"default_revised", ".", "docx">>

\* if output_path: self.output_path = output_path  (an empty or missing
\* argument leaves the attribute of the instance as it was: the configured
\* path at first, then whatever an earlier call on the instance has set)
PathOrDefault(path, default) == IF path = <<>> THEN default ELSE path

\* ReviewerAgent.__init__
ReviewerAgent == [csr_path |-> GENERATED_CSR_PATH, output_path |-> REVIEW_REPORT_PATH]

\* ComplianceAgent.__init__
ComplianceAgent == [csr_path |-> GENERATED_CSR_PATH, output_path |-> COMPLIANCE_REPORT_PATH]

\* ReviserAgent.__init__
ReviserAgent ==
    [csr_path |-> GENERATED_CSR_PATH, review_path |-> REVIEW_REPORT_PATH,
     compliance_path |-> COMPLIANCE_REPORT_PATH, output_path |-> REVISED_CSR_PATH]

\* The three instances a run creates before its loop
NewAgents ==
    [reviewer |-> ReviewerAgent, compliance |-> ComplianceAgent, reviser |-> ReviserAgent]

VARIABLES
    variant,                \* "main": improve_csr_until_confident, "app": run_full_pipeline_stream
    pc,                     \* the position in the function
    settings,               \* "numbers": max_iterations and the target are numbers; "raw":
                            \* they are what config.py holds, a str or None
    max_iterations, target_score, target_confidence, initial_csr_path,
                            \* (the numbers; 0 while the settings are raw)
    iteration,              \* the loop variable (0 before the first iteration)
    review_report_path, compliance_report_path, compliance_score,
    \* main.py
    current_csr_path, final_score, review_score, iterations_done,
    final_csr_path, result,
    \* app.py
    latest_csr_path, combined_score, reviewer_score, current_iteration,
    score_history,
    \* the environment
    calls,                  \* the calls of the three agents, in order
    writes,                 \* the files written, in order
    \* the extractor specification
    ptext, pagent, pscore,
    \* the document store specification
    disk,                   \* the .docx files: path -> <<paragraphs>>, <<>> when absent
    op,                     \* the last operation on the store and its outcome
    \* the comparison of the two entry points
    main_run,               \* what improve_csr_until_confident did, once it has ended
    runs,                   \* two concurrent runs: run -> its position and current path
    files,                  \* the .docx files the two runs share: path -> <<paragraphs>>
    io,                     \* the last read or write of a file by one of the two runs
    snapshots,              \* the snapshots run_full_pipeline_stream has yielded, in order
    agents                  \* the attributes of the run's ReviewerAgent, ComplianceAgent
                            \* and ReviserAgent instances

config_vars == <<variant, settings, max_iterations, target_score, target_confidence,
                 initial_csr_path>>
main_vars == <<current_csr_path, final_score, review_score, iterations_done, final_csr_path, result>>
app_vars == <<latest_csr_path, combined_score, reviewer_score, current_iteration, score_history>>
parse_vars == <<ptext, pagent, pscore>>
store_vars == <<disk, op>>
\* The variables of the two concurrent runs
two_vars == <<runs, files, io>>

vars == <<pc, config_vars, iteration, review_report_path, compliance_report_path,
          compliance_score, main_vars, app_vars, calls, writes, parse_vars, store_vars,
          main_run, two_vars, snapshots, agents>>

\* A value not assigned yet
None == <<>>

\* The store specification's variables while the loop or the extractor runs
StoreIdle == disk = <<>> /\ op = [kind |-> "none"]

\* The variables of the two concurrent runs while a single run is followed
TwoIdle == runs = <<>> /\ files = <<>> /\ io = [kind |-> "none"]

\* No run of improve_csr_until_confident is on record
NoRun == <<>>

\* csr_base = Path(initial_csr_path), for every initial path of the runs
csr_base == [p \in InitialPaths |-> Path(p)]

\* csr_dir = csr_base.parent
csr_dir == csr_base[initial_csr_path].parent

\* csr_stem = csr_base.stem
csr_stem == csr_base[initial_csr_path].stem

\* The state of improve_csr_until_confident before its loop, or of
\* run_full_pipeline_stream before its try block
Init ==
    /\ variant \in {"main", "app"}
    /\ settings \in {"numbers", "raw"}
    /\ pc \in IF variant = "app" THEN {"convert"}
              ELSE IF settings = "raw" THEN {"loop"} ELSE {"loop", "pipeline"}
    /\ max_iterations \in IF pc = "pipeline" THEN {PipelineMaxIterations}
                          ELSE IF settings = "raw" THEN {0} ELSE MaxIterationsValues
    /\ \E t \in IF pc = "pipeline" THEN {PipelineTarget}
                 ELSE IF settings = "raw" THEN {F(0)} ELSE TargetValues :
          target_score = t /\ target_confidence = t
    /\ initial_csr_path \in IF pc = "pipeline" \/ settings = "raw" \/ variant = "app"
                            THEN {GENERATED_CSR_PATH} ELSE InitialPaths
    /\ iteration = 0
    /\ review_report_path = <<>>
    /\ compliance_report_path = <<>>
    /\ compliance_score = IF variant = "main" THEN None ELSE F(0)
    /\ current_csr_path = IF variant = "main" /\ pc = "loop" THEN initial_csr_path
                          ELSE None
    /\ final_score = F(0)
    /\ review_score = None
    /\ iterations_done = 0
    /\ final_csr_path = None
    /\ result = None
    /\ latest_csr_path = None
    /\ combined_score = F(0)
    /\ reviewer_score = F(0)
    /\ current_iteration = 0
    /\ score_history = <<>>
    /\ calls = <<>>
    /\ writes = <<>>
    /\ ptext = <<>> /\ pagent = "none" /\ pscore = None
    /\ StoreIdle
    /\ main_run = NoRun
    /\ TwoIdle
    /\ snapshots = <<>>
    /\ agents = NewAgents

\* ------------------------------------------------------------------- agents
\* The record of one call of an agent in the current iteration
\* (score: the score the call returned, in a sequence that is empty when it
\* returned none; scored: the evaluator's text held a score line)
Call(agent, csr, review, compliance, out, fail, score, scored) ==
    [agent |-> agent, iteration |-> iteration, csr_path |-> csr,
     review_path |-> review, compliance_path |-> compliance,
     output_path |-> out, fail |-> fail, score |-> score, scored |-> scored]

\* The four guards at the head of a call, which assign the attributes of the
\* instance before anything is read
SetPaths(self, csr_path, output_path) ==
    [self EXCEPT !.csr_path = PathOrDefault(csr_path, self.csr_path),
                 !.output_path = PathOrDefault(output_path, self.output_path)]

\* (variant: the report is written only when a score line was found)
review_document_scored_only(self, csr_path, output_path, text, fail) ==
    LET me == SetPaths(self, csr_path, output_path) IN
    [self |-> me,
     ok |-> fail = "none",
     wrote |-> IF fail = "none" /\ re_search(text, COMPLETENESS_LABEL, 1) # <<>>
               THEN <<me.output_path>> ELSE <<>>,
     path |-> me.output_path,
     score |-> ReviewerParseScore(text),
     scored |-> re_search(text, COMPLETENESS_LABEL, 1) # <<>>]

\* ReviewerAgent.review_document: sets the paths of the instance, reads the
\* CSR, asks for the review, parses the score, writes the report, returns
\* (self.output_path, score)
review_document(self, csr_path, output_path, text, fail) ==
    LET me == SetPaths(self, csr_path, output_path) IN
    [self |-> me,
     ok |-> fail = "none",
     wrote |-> IF fail = "none" THEN <<me.output_path>> ELSE <<>>,
     path |-> me.output_path,
     score |-> ReviewerParseScore(text),
     scored |-> re_search(text, COMPLETENESS_LABEL, 1) # <<>>]

\* ComplianceAgent.check_regulatory_compliance: the same with its own rubric
check_regulatory_compliance(self, csr_path, output_path, text, fail) ==
    LET me == SetPaths(self, csr_path, output_path) IN
    [self |-> me,
     ok |-> fail = "none",
     wrote |-> IF fail = "none" THEN <<me.output_path>> ELSE <<>>,
     path |-> me.output_path,
     score |-> ComplianceParseScore(text),
     scored |-> re_search(text, COMPLIANCE_LABEL, 1) # <<>>]

\* ReviserAgent.revise_document: sets the paths of the instance, reads the CSR
\* and the two reports, asks for the revision, writes it to self.output_path,
\* returns self.output_path
revise_document(self, csr_path, review_path, compliance_path, output_path, fail) ==
    LET me == [SetPaths(self, csr_path, output_path) EXCEPT
                   !.review_path = PathOrDefault(review_path, self.review_path),
                   !.compliance_path = PathOrDefault(compliance_path, self.compliance_path)]
    IN [self |-> me,
        ok |-> fail = "none",
        wrote |-> IF fail = "none" THEN <<me.output_path>> ELSE <<>>,
        path |-> me.output_path]

\* ------------------------------------------- main.py: improve_csr_until_confident
\* (variant: a loop that an exhausted range does not end)
MainLoopHeadNoExit ==
    /\ variant = "main" /\ pc = "loop" /\ settings = "numbers"
    /\ iteration + 1 \in Range(max_iterations)
    /\ iteration' = iteration + 1
    /\ iterations_done' = iteration + 1
    /\ pc' = "review"
    /\ UNCHANGED <<config_vars, review_report_path, compliance_report_path,
                   compliance_score, current_csr_path, final_score, review_score,
                   final_csr_path, result, app_vars, calls, writes, parse_vars, store_vars, main_run, two_vars, snapshots, agents>>

\* (variant: an exhausted loop hands back the initial document)
MainLoopHeadKeepInitial ==
    /\ variant = "main" /\ pc = "loop" /\ settings = "numbers"
    /\ IF iteration + 1 \in Range(max_iterations)
       THEN /\ iteration' = iteration + 1
            /\ iterations_done' = iteration + 1
            /\ pc' = "review"
            /\ UNCHANGED final_csr_path
       ELSE /\ final_csr_path' = initial_csr_path
            /\ pc' = "return"
            /\ UNCHANGED <<iteration, iterations_done>>
    /\ UNCHANGED <<config_vars, review_report_path, compliance_report_path,
                   compliance_score, current_csr_path, final_score, review_score,
                   result, app_vars, calls, writes, parse_vars, store_vars, main_run, two_vars, snapshots, agents>>

\* for iteration in range(1, max_iterations + 1): ... else: ...
\* (with the defaults of the signature, max_iterations is the str or None of
\* config.py and max_iterations + 1 raises TypeError)
MainLoopHead ==
    /\ variant = "main" /\ pc = "loop"
    /\ IF settings = "raw"
       THEN /\ pc' = "raised"
            /\ UNCHANGED <<iteration, iterations_done, final_csr_path>>
       ELSE IF iteration + 1 \in Range(max_iterations)
       THEN /\ iteration' = iteration + 1
            /\ iterations_done' = iteration + 1
            /\ pc' = "review"
            /\ UNCHANGED final_csr_path
       ELSE /\ final_csr_path' = current_csr_path
            /\ pc' = "return"
            /\ UNCHANGED <<iteration, iterations_done>>
    /\ UNCHANGED <<config_vars, review_report_path, compliance_report_path,
                   compliance_score, current_csr_path, final_score, review_score,
                   result, app_vars, calls, writes, parse_vars, store_vars, main_run, two_vars, snapshots, agents>>

\* 1) Reviewer
MainReviewer ==
    /\ variant = "main" /\ pc = "review"
    /\ \E text \in ReviewTexts, fail \in FailPoints :
          LET out == IterReviewPath(csr_dir, csr_stem, iteration)
              r == review_document(agents.reviewer, current_csr_path, out, text, fail)
          IN /\ agents' = [agents EXCEPT !.reviewer = r.self]
             /\ calls' = Append(calls, Call("reviewer", current_csr_path, <<>>, <<>>,
                                            out, fail, IF r.ok THEN <<r.score>> ELSE None,
                                            r.ok /\ r.scored))
             /\ writes' = writes \o r.wrote
             /\ IF r.ok
                THEN /\ review_report_path' = r.path
                     /\ review_score' = r.score
                     /\ pc' = "compliance"
                ELSE /\ pc' = "raised"
                     /\ UNCHANGED <<review_report_path, review_score>>
    /\ UNCHANGED <<config_vars, iteration, compliance_report_path, compliance_score,
                   current_csr_path, final_score, iterations_done, final_csr_path,
                   result, app_vars, parse_vars, store_vars, main_run, two_vars, snapshots>>

\* 2) Compliance
MainCompliance ==
    /\ variant = "main" /\ pc = "compliance"
    /\ \E text \in ComplianceTexts, fail \in FailPoints :
          LET out == IterCompliancePath(csr_dir, csr_stem, iteration)
              r == check_regulatory_compliance(agents.compliance, current_csr_path, out, text, fail)
          IN /\ agents' = [agents EXCEPT !.compliance = r.self]
             /\ calls' = Append(calls, Call("compliance", current_csr_path, <<>>, <<>>,
                                            out, fail, IF r.ok THEN <<r.score>> ELSE None,
                                            r.ok /\ r.scored))
             /\ writes' = writes \o r.wrote
             /\ IF r.ok
                THEN /\ compliance_report_path' = r.path
                     /\ compliance_score' = r.score
                     /\ pc' = "decide"
                ELSE /\ pc' = "raised"
                     /\ UNCHANGED <<compliance_report_path, compliance_score>>
    /\ UNCHANGED <<config_vars, iteration, review_report_path, current_csr_path,
                   final_score, review_score, iterations_done, final_csr_path,
                   result, app_vars, parse_vars, store_vars, main_run, two_vars, snapshots>>

\* A stopping step that reports the path of this iteration's revision
MainDecideNewPath ==
    /\ variant = "main" /\ pc = "decide"
    /\ final_score' = Combined(review_score, compliance_score)
    /\ IF TargetReached(final_score', target_score)
       THEN /\ final_csr_path' = IterCsrPath(csr_dir, csr_stem, iteration)
            /\ pc' = "return"
       ELSE /\ pc' = "revise"
            /\ UNCHANGED final_csr_path
    /\ UNCHANGED <<config_vars, iteration, review_report_path, compliance_report_path,
                   compliance_score, current_csr_path, review_score, iterations_done,
                   result, app_vars, calls, writes, parse_vars, store_vars, main_run, two_vars, snapshots, agents>>

\* 3) Combined confidence score, and the stopping rule
MainDecide ==
    /\ variant = "main" /\ pc = "decide"
    /\ final_score' = Combined(review_score, compliance_score)
    /\ IF TargetReached(final_score', target_score)
       THEN /\ final_csr_path' = current_csr_path
            /\ pc' = "return"
       ELSE /\ pc' = "revise"
            /\ UNCHANGED final_csr_path
    /\ UNCHANGED <<config_vars, iteration, review_report_path, compliance_report_path,
                   compliance_score, current_csr_path, review_score, iterations_done,
                   result, app_vars, calls, writes, parse_vars, store_vars, main_run, two_vars, snapshots, agents>>

\* (variant: every revision starts from the initial document)
MainReviserFromInitial ==
    /\ variant = "main" /\ pc = "revise"
    /\ \E fail \in FailPoints :
          LET out == IterCsrPath(csr_dir, csr_stem, iteration)
              r == revise_document(agents.reviser, initial_csr_path, review_report_path,
                                   compliance_report_path, out, fail)
          IN /\ agents' = [agents EXCEPT !.reviser = r.self]
             /\ calls' = Append(calls, Call("reviser", initial_csr_path, review_report_path,
                                            compliance_report_path, out, fail, None, FALSE))
             /\ writes' = writes \o r.wrote
             /\ IF r.ok
                THEN current_csr_path' = r.path /\ pc' = "loop"
                ELSE pc' = "raised" /\ UNCHANGED current_csr_path
    /\ UNCHANGED <<config_vars, iteration, review_report_path, compliance_report_path,
                   compliance_score, final_score, review_score, iterations_done,
                   final_csr_path, result, app_vars, parse_vars, store_vars, main_run, two_vars, snapshots>>

\* (variant: the current version is set to the output path before the call)
MainReviserAssignFirst ==
    /\ variant = "main" /\ pc = "revise"
    /\ \E fail \in FailPoints :
          LET out == IterCsrPath(csr_dir, csr_stem, iteration)
              r == revise_document(agents.reviser, current_csr_path, review_report_path,
                                   compliance_report_path, out, fail)
          IN /\ agents' = [agents EXCEPT !.reviser = r.self]
             /\ calls' = Append(calls, Call("reviser", current_csr_path, review_report_path,
                                            compliance_report_path, out, fail, None, FALSE))
             /\ writes' = writes \o r.wrote
             /\ current_csr_path' = out
             /\ pc' = IF r.ok THEN "loop" ELSE "raised"
    /\ UNCHANGED <<config_vars, iteration, review_report_path, compliance_report_path,
                   compliance_score, final_score, review_score, iterations_done,
                   final_csr_path, result, app_vars, parse_vars, store_vars, main_run, two_vars, snapshots>>

\* 4) Reviser
MainReviser ==
    /\ variant = "main" /\ pc = "revise"
    /\ \E fail \in FailPoints :
          LET out == IterCsrPath(csr_dir, csr_stem, iteration)
              r == revise_document(agents.reviser, current_csr_path, review_report_path,
                                   compliance_report_path, out, fail)
          IN /\ agents' = [agents EXCEPT !.reviser = r.self]
             /\ calls' = Append(calls, Call("reviser", current_csr_path, review_report_path,
                                            compliance_report_path, out, fail, None, FALSE))
             /\ writes' = writes \o r.wrote
             /\ IF r.ok
                THEN current_csr_path' = r.path /\ pc' = "loop"
                ELSE pc' = "raised" /\ UNCHANGED current_csr_path
    /\ UNCHANGED <<config_vars, iteration, review_report_path, compliance_report_path,
                   compliance_score, final_score, review_score, iterations_done,
                   final_csr_path, result, app_vars, parse_vars, store_vars, main_run, two_vars, snapshots>>

\* (variant: the result reports the configured number of iterations)
MainReturnConfigured ==
    /\ variant = "main" /\ pc = "return"
    /\ result' = [final_csr_path |-> final_csr_path,
                  review_report_path |-> review_report_path,
                  compliance_report_path |-> compliance_report_path,
                  final_score |-> final_score,
                  iterations |-> max_iterations]
    /\ pc' = "returned"
    /\ UNCHANGED <<config_vars, iteration, review_report_path, compliance_report_path,
                   compliance_score, current_csr_path, final_score, review_score,
                   iterations_done, final_csr_path, app_vars, calls, writes, parse_vars, store_vars, main_run, two_vars, snapshots, agents>>

\* return {...}
MainReturn ==
    /\ variant = "main" /\ pc = "return"
    /\ result' = [final_csr_path |-> final_csr_path,
                  review_report_path |-> review_report_path,
                  compliance_report_path |-> compliance_report_path,
                  final_score |-> final_score,
                  iterations |-> iterations_done]
    /\ pc' = "returned"
    /\ UNCHANGED <<config_vars, iteration, review_report_path, compliance_report_path,
                   compliance_score, current_csr_path, final_score, review_score,
                   iterations_done, final_csr_path, app_vars, calls, writes, parse_vars, store_vars, main_run, two_vars, snapshots, agents>>

\* run_pipeline: KnowledgeAgent and DocumentComposerAgent, then
\* improve_csr_until_confident on the composer's document
RunPipeline ==
    /\ variant = "main" /\ pc = "pipeline"
    /\ \E fail \in FailPoints :
          IF fail = "none"
          THEN /\ writes' = Append(writes, initial_csr_path)
               /\ current_csr_path' = initial_csr_path
               /\ pc' = "loop"
          ELSE /\ pc' = "raised"
               /\ UNCHANGED <<writes, current_csr_path>>
    /\ UNCHANGED <<config_vars, iteration, review_report_path, compliance_report_path,
                   compliance_score, final_score, review_score, iterations_done,
                   final_csr_path, result, app_vars, calls, parse_vars, store_vars,
                   main_run, two_vars, snapshots, agents>>

\* ---------------------------------------------- app.py: run_full_pipeline_stream
\* target_confidence = float(CONFIDENCE_THRESHOLD) and max_iterations =
\* int(...), before the try block and the first yield: a setting that is
\* missing or no number raises out of the generator
AppConvert ==
    /\ variant = "app" /\ pc = "convert"
    /\ pc' = IF settings = "raw" THEN "crashed" ELSE "start"
    /\ UNCHANGED <<config_vars, iteration, review_report_path, compliance_report_path,
                   compliance_score, main_vars, app_vars, calls, writes, parse_vars,
                   store_vars, main_run, two_vars, snapshots, agents>>

\* 1) KnowledgeAgent, between the snapshots "KnowledgeAgent: extracting
\* sections" and "KnowledgeAgent completed": it reads its inputs and asks the
\* generation service, and writes no file
AppKnowledge ==
    /\ variant = "app" /\ pc = "start"
    /\ \E fail \in FailPoints \ {"write"} :
          pc' = IF fail = "none" THEN "compose" ELSE "except"
    /\ UNCHANGED <<config_vars, iteration, review_report_path, compliance_report_path,
                   compliance_score, main_vars, app_vars, calls, writes, parse_vars,
                   store_vars, main_run, two_vars, snapshots, agents>>

\* 2) DocumentComposerAgent, between the snapshots "DocumentComposerAgent:
\* composing initial CSR" and "Initial CSR generated": the initial CSR (v0)
AppCompose ==
    /\ variant = "app" /\ pc = "compose"
    /\ \E fail \in FailPoints :
          IF fail = "none"
          THEN /\ latest_csr_path' = initial_csr_path
               /\ writes' = Append(writes, initial_csr_path)
               /\ pc' = "loop"
          ELSE /\ pc' = "except"
               /\ UNCHANGED <<latest_csr_path, writes>>
    /\ UNCHANGED <<config_vars, iteration, review_report_path, compliance_report_path,
                   compliance_score, main_vars, combined_score, reviewer_score,
                   current_iteration, score_history, calls, parse_vars, store_vars, main_run, two_vars, snapshots, agents>>

\* for iteration in range(1, max_iterations + 1):
AppLoopHead ==
    /\ variant = "app" /\ pc = "loop"
    /\ IF iteration + 1 \in Range(max_iterations)
       THEN /\ iteration' = iteration + 1
            /\ current_iteration' = iteration + 1
            /\ pc' = "review"
       ELSE /\ pc' = "final"
            /\ UNCHANGED <<iteration, current_iteration>>
    /\ UNCHANGED <<config_vars, review_report_path, compliance_report_path,
                   compliance_score, main_vars, latest_csr_path, combined_score,
                   reviewer_score, score_history, calls, writes, parse_vars, store_vars, main_run, two_vars, snapshots, agents>>

\* ReviewerAgent
AppReviewer ==
    /\ variant = "app" /\ pc = "review"
    /\ \E text \in ReviewTexts, fail \in FailPoints :
          LET out == IterReviewPath(csr_dir, csr_stem, iteration)
              r == review_document(agents.reviewer, latest_csr_path, out, text, fail)
          IN /\ agents' = [agents EXCEPT !.reviewer = r.self]
             /\ calls' = Append(calls, Call("reviewer", latest_csr_path, <<>>, <<>>,
                                            out, fail, IF r.ok THEN <<r.score>> ELSE None,
                                            r.ok /\ r.scored))
             /\ writes' = writes \o r.wrote
             /\ IF r.ok
                THEN /\ review_report_path' = r.path
                     /\ reviewer_score' = r.score
                     /\ pc' = "compliance"
                ELSE /\ pc' = "except"
                     /\ UNCHANGED <<review_report_path, reviewer_score>>
    /\ UNCHANGED <<config_vars, iteration, compliance_report_path, compliance_score,
                   main_vars, latest_csr_path, combined_score, current_iteration,
                   score_history, parse_vars, store_vars, main_run, two_vars, snapshots>>

\* A compliance step that takes a failed check as a score of 0.0 and goes on
AppComplianceSwallow ==
    /\ variant = "app" /\ pc = "compliance"
    /\ \E text \in ComplianceTexts, fail \in FailPoints :
          LET out == IterCompliancePath(csr_dir, csr_stem, iteration)
              r == check_regulatory_compliance(agents.compliance, latest_csr_path, out, text, fail)
          IN /\ agents' = [agents EXCEPT !.compliance = r.self]
             /\ calls' = Append(calls, Call("compliance", latest_csr_path, <<>>, <<>>,
                                            out, fail, IF r.ok THEN <<r.score>> ELSE None,
                                            r.ok /\ r.scored))
             /\ writes' = writes \o r.wrote
             /\ compliance_report_path' = r.path
             /\ compliance_score' = IF r.ok THEN r.score ELSE F(0)
             /\ pc' = "decide"
    /\ UNCHANGED <<config_vars, iteration, review_report_path, main_vars,
                   latest_csr_path, combined_score, reviewer_score, current_iteration,
                   score_history, parse_vars, store_vars, main_run, two_vars, snapshots>>

\* ComplianceAgent
AppCompliance ==
    /\ variant = "app" /\ pc = "compliance"
    /\ \E text \in ComplianceTexts, fail \in FailPoints :
          LET out == IterCompliancePath(csr_dir, csr_stem, iteration)
              r == check_regulatory_compliance(agents.compliance, latest_csr_path, out, text, fail)
          IN /\ agents' = [agents EXCEPT !.compliance = r.self]
             /\ calls' = Append(calls, Call("compliance", latest_csr_path, <<>>, <<>>,
                                            out, fail, IF r.ok THEN <<r.score>> ELSE None,
                                            r.ok /\ r.scored))
             /\ writes' = writes \o r.wrote
             /\ IF r.ok
                THEN /\ compliance_report_path' = r.path
                     /\ compliance_score' = r.score
                     /\ pc' = "decide"
                ELSE /\ pc' = "except"
                     /\ UNCHANGED <<compliance_report_path, compliance_score>>
    /\ UNCHANGED <<config_vars, iteration, review_report_path, main_vars,
                   latest_csr_path, combined_score, reviewer_score, current_iteration,
                   score_history, parse_vars, store_vars, main_run, two_vars, snapshots>>

\* (variant: the history keeps the latest record only)
AppScoresKeepLatest ==
    /\ variant = "app" /\ pc = "decide"
    /\ combined_score' = Combined(reviewer_score, compliance_score)
    /\ score_history' = <<[iteration |-> iteration, review |-> reviewer_score,
                           compliance |-> compliance_score,
                           combined |-> combined_score']>>
    /\ pc' = "scored"
    /\ UNCHANGED <<config_vars, iteration, review_report_path, compliance_report_path,
                   compliance_score, main_vars, latest_csr_path, reviewer_score,
                   current_iteration, calls, writes, parse_vars, store_vars, main_run,
                   two_vars, snapshots, agents>>

\* Combined score and score_history.append, up to the yield "Scores updated"
AppScores ==
    /\ variant = "app" /\ pc = "decide"
    /\ combined_score' = Combined(reviewer_score, compliance_score)
    /\ score_history' = Append(score_history,
                               [iteration |-> iteration, review |-> reviewer_score,
                                compliance |-> compliance_score,
                                combined |-> combined_score'])
    /\ pc' = "scored"
    /\ UNCHANGED <<config_vars, iteration, review_report_path, compliance_report_path,
                   compliance_score, main_vars, latest_csr_path, reviewer_score,
                   current_iteration, calls, writes, parse_vars, store_vars, main_run,
                   two_vars, snapshots, agents>>

\* (variant: the streaming loop stops only above the target)
AppDecideStrict ==
    /\ variant = "app" /\ pc = "scored"
    /\ pc' = IF TargetReachedStrict(combined_score, target_confidence) THEN "final" ELSE "revise"
    /\ UNCHANGED <<config_vars, iteration, review_report_path, compliance_report_path,
                   compliance_score, main_vars, app_vars, calls, writes, parse_vars,
                   store_vars, main_run, two_vars, snapshots, agents>>

\* The stopping criterion, once the generator is resumed:
\* if combined_score >= target_confidence: break
AppDecide ==
    /\ variant = "app" /\ pc = "scored"
    /\ pc' = IF TargetReached(combined_score, target_confidence) THEN "final" ELSE "revise"
    /\ UNCHANGED <<config_vars, iteration, review_report_path, compliance_report_path,
                   compliance_score, main_vars, app_vars, calls, writes, parse_vars,
                   store_vars, main_run, two_vars, snapshots, agents>>

\* (variant: the revision is not taken over as the latest document)
AppReviserKeepsPath ==
    /\ variant = "app" /\ pc = "revise"
    /\ \E fail \in FailPoints :
          LET out == IterCsrPath(csr_dir, csr_stem, iteration)
              r == revise_document(agents.reviser, latest_csr_path, review_report_path,
                                   compliance_report_path, out, fail)
          IN /\ agents' = [agents EXCEPT !.reviser = r.self]
             /\ calls' = Append(calls, Call("reviser", latest_csr_path, review_report_path,
                                            compliance_report_path, out, fail, None, FALSE))
             /\ writes' = writes \o r.wrote
             /\ IF r.ok
                THEN latest_csr_path' = latest_csr_path /\ pc' = "loop"
                ELSE pc' = "except" /\ UNCHANGED latest_csr_path
    /\ UNCHANGED <<config_vars, iteration, review_report_path, compliance_report_path,
                   compliance_score, main_vars, combined_score, reviewer_score,
                   current_iteration, score_history, parse_vars, store_vars, main_run, two_vars, snapshots>>

\* ReviserAgent
AppReviser ==
    /\ variant = "app" /\ pc = "revise"
    /\ \E fail \in FailPoints :
          LET out == IterCsrPath(csr_dir, csr_stem, iteration)
              r == revise_document(agents.reviser, latest_csr_path, review_report_path,
                                   compliance_report_path, out, fail)
          IN /\ agents' = [agents EXCEPT !.reviser = r.self]
             /\ calls' = Append(calls, Call("reviser", latest_csr_path, review_report_path,
                                            compliance_report_path, out, fail, None, FALSE))
             /\ writes' = writes \o r.wrote
             /\ IF r.ok
                THEN latest_csr_path' = r.path /\ pc' = "loop"
                ELSE pc' = "except" /\ UNCHANGED latest_csr_path
    /\ UNCHANGED <<config_vars, iteration, review_report_path, compliance_report_path,
                   compliance_score, main_vars, combined_score, reviewer_score,
                   current_iteration, score_history, parse_vars, store_vars, main_run, two_vars, snapshots>>

\* The final summary and the last yield, status "Done"
AppDone ==
    /\ variant = "app" /\ pc = "final"
    /\ pc' = "done"
    /\ UNCHANGED <<config_vars, iteration, review_report_path, compliance_report_path,
                   compliance_score, main_vars, app_vars, calls, writes, parse_vars, store_vars,
          main_run, two_vars, snapshots, agents>>

\* except Exception: the last yield, status "Error"
AppError ==
    /\ variant = "app" /\ pc = "except"
    /\ pc' = "error"
    /\ UNCHANGED <<config_vars, iteration, review_report_path, compliance_report_path,
                   compliance_score, main_vars, app_vars, calls, writes, parse_vars, store_vars,
          main_run, two_vars, snapshots, agents>>

Next ==
    \/ RunPipeline
    \/ MainLoopHead \/ MainReviewer \/ MainCompliance \/ MainDecide
    \/ MainReviser \/ MainReturn
    \/ AppConvert \/ AppKnowledge \/ AppCompose \/ AppLoopHead \/ AppReviewer \/ AppCompliance \/ AppScores
    \/ AppDecide \/ AppReviser \/ AppDone \/ AppError

Spec == Init /\ [][Next]_vars

\* The program keeps running: it is one thread, every statement completes and
\* every call of an agent returns or raises.  (Every step moves the position
\* of the program, so a step that is taken is a step that changes pc.)
SpecFair == Init /\ [][Next]_vars /\ WF_pc(Next)

\* ------------------------------------------- the extractors on their own
Alphabet == {COMPLETENESS_LABEL, COMPLIANCE_LABEL, ":", " ", "0", "1", "5", "-"}

\* Longer texts: two score lines, a score line of each label, the texts of the
\* loop's evaluators
LongTexts ==
    { <<COMPLETENESS_LABEL, ":", "1", "5", "0", " ", COMPLETENESS_LABEL, ":", "5">>,
      <<COMPLETENESS_LABEL, ":", "-", "5", " ", COMPLETENESS_LABEL, " ", ":", " ", "1", "5">>,
      <<COMPLIANCE_LABEL, ":", "5", COMPLETENESS_LABEL, ":", "1", "5", "0">>,
      <<COMPLETENESS_LABEL, " ", "5", ":", COMPLIANCE_LABEL, ":", " ", "1", "0", "0", "0">>,
      <<COMPLETENESS_LABEL, ":", "\n", "1", "5">>,
      <<COMPLIANCE_LABEL, "\t", ":", "\r", "\n", "5", "0">>,
      <<COMPLETENESS_LABEL, ":", "", "1", "5">>,
      <<COMPLIANCE_LABEL, " ", ":", "", "", "5", "0">> }
    \cup ReviewTexts \cup ComplianceTexts

Texts == UNION {[1..n -> Alphabet] : n \in 0..MaxLen} \cup LongTexts

InitParse ==
    /\ ptext \in Texts /\ pagent = "none" /\ pscore = None
    /\ StoreIdle
    /\ main_run = NoRun
    /\ TwoIdle
    /\ snapshots = <<>>
    /\ agents = NewAgents
    /\ pc = "parse"
    /\ variant = "none"
    /\ settings = "numbers"
    /\ max_iterations = 0 /\ target_score = F(0) /\ target_confidence = F(0)
    /\ initial_csr_path = <<>>
    /\ iteration = 0
    /\ review_report_path = <<>> /\ compliance_report_path = <<>>
    /\ compliance_score = None
    /\ current_csr_path = None /\ final_score = F(0) /\ review_score = None
    /\ iterations_done = 0 /\ final_csr_path = None /\ result = None
    /\ latest_csr_path = None /\ combined_score = F(0) /\ reviewer_score = F(0)
    /\ current_iteration = 0 /\ score_history = <<>>
    /\ calls = <<>> /\ writes = <<>>

\* score = _parse_score_from_text(review_text)
ParseReviewer ==
    /\ pc = "parse"
    /\ pagent' = "reviewer"
    /\ pscore' = ReviewerParseScore(ptext)
    /\ pc' = "parsed"
    /\ UNCHANGED <<config_vars, iteration, review_report_path, compliance_report_path,
                   compliance_score, main_vars, app_vars, calls, writes, ptext, store_vars, main_run, two_vars, snapshots, agents>>

\* score = _parse_score_from_text(compliance_text)
ParseCompliance ==
    /\ pc = "parse"
    /\ pagent' = "compliance"
    /\ pscore' = ComplianceParseScore(ptext)
    /\ pc' = "parsed"
    /\ UNCHANGED <<config_vars, iteration, review_report_path, compliance_report_path,
                   compliance_score, main_vars, app_vars, calls, writes, ptext, store_vars, main_run, two_vars, snapshots, agents>>

NextParse == ParseReviewer \/ ParseCompliance

SpecParse == InitParse /\ [][NextParse]_vars

\* ======================================================================
\* Properties of the extractors (SpecParse)
\* ======================================================================
OwnLabel(agent) == IF agent = "reviewer" THEN COMPLETENESS_LABEL ELSE COMPLIANCE_LABEL

\* The label stands at position i, followed by optional white space (line
\* breaks and tabs included), a colon, optional white space and a digit at
\* position b
Occurs(text, label, i, b) ==
    /\ i \in 1..Len(text) /\ b \in 1..Len(text)
    /\ text[i] = label
    /\ \E a \in (i + 1)..(b - 1) :
          /\ text[a] = ":"
          /\ \A k \in (i + 1)..(a - 1) : text[k] \in WhiteSpace
          /\ \A k \in (a + 1)..(b - 1) : text[k] \in WhiteSpace
    /\ IsDigit(text[b])

HasOccurrence(text, label) ==
    \E i \in 1..Len(text), b \in 1..Len(text) : Occurs(text, label, i, b)

\* The number written by the digits at positions b..e
RECURSIVE NumberAt(_, _, _)
NumberAt(text, b, e) ==
    IF e < b THEN 0 ELSE 10 * NumberAt(text, b, e - 1) + DigitVal(text[e])

\* The integer of the first occurrence: its digits run from b to the last
\* digit before a non-digit or the end of the text
FirstOccurrenceValue(text, label) ==
    LET i == CHOOSE i \in 1..Len(text) :
                 /\ \E b \in 1..Len(text) : Occurs(text, label, i, b)
                 /\ \A j \in 1..(i - 1) : \A b \in 1..Len(text) : ~Occurs(text, label, j, b)
        b == CHOOSE b \in 1..Len(text) : Occurs(text, label, i, b)
        e == CHOOSE e \in b..Len(text) :
                 /\ \A k \in b..e : IsDigit(text[k])
                 /\ e = Len(text) \/ ~IsDigit(text[e + 1])
    IN NumberAt(text, b, e)

\* C8: the score extractor returns the integer of the first occurrence of
\* "<LABEL>: <digits>" for its own label, clamped to [0, 100]; its result is
\* always within [0, 100].
C8_FirstMatchClamped ==
    pc = "parsed" =>
        /\ pscore >= F(0) /\ pscore <= F(100)
        /\ HasOccurrence(ptext, OwnLabel(pagent)) =>
              pscore = F(Min(FirstOccurrenceValue(ptext, OwnLabel(pagent)), 100))

\* Two score lines, the first of 150 and the second of 5: the result is 100.0
C8_Witness ==
    /\ pc = "parsed" /\ pagent = "reviewer"
    /\ ptext = <<COMPLETENESS_LABEL, ":", "1", "5", "0", " ", COMPLETENESS_LABEL, ":", "5">>
    /\ pscore = F(100)

\* C9: for a text without an occurrence of the evaluator's own label followed
\* by a colon and an unsigned integer, the extractor returns exactly 0.0 (a
\* score line of the other evaluator's label is no match).
C9_NoMatchIsZero ==
    (pc = "parsed" /\ ~HasOccurrence(ptext, OwnLabel(pagent))) => pscore = F(0)

\* The compliance extractor on a completeness score line
C9_Witness ==
    /\ pc = "parsed" /\ pagent = "compliance"
    /\ ptext = <<COMPLETENESS_LABEL, ":", " ", "1", "5">>
    /\ pscore = F(0)

\* ======================================================================
\* Properties of the improvement loop (Spec)
\* ======================================================================
\* The loop's state, whichever of the two functions runs it
Target == IF variant = "main" THEN target_score ELSE target_confidence
Score == IF variant = "main" THEN final_score ELSE combined_score
Iterations == IF variant = "main" THEN iterations_done ELSE current_iteration
Finished == pc \in {"returned", "done"}
Failed == pc \in {"raised", "except", "error"}
FinalPath == IF variant = "main" THEN result.final_csr_path ELSE latest_csr_path

\* Version j of the document: the initial path for 0, <stem>_v{j} otherwise
VersionPath(j) == IF j = 0 THEN initial_csr_path ELSE IterCsrPath(csr_dir, csr_stem, j)

CallsOf(agent) == {k \in 1..Len(calls) : calls[k].agent = agent}
Succeeded(k) == calls[k].fail = "none"
Written == {writes[k] : k \in 1..Len(writes)}

\* Call k is the compliance evaluation that completes the evaluation of an
\* iteration: the reviewer's call of the same iteration precedes it
CompletesEvaluation(k) ==
    /\ k >= 2
    /\ calls[k].agent = "compliance" /\ Succeeded(k)
    /\ calls[k - 1].agent = "reviewer" /\ Succeeded(k - 1)
    /\ calls[k - 1].iteration = calls[k].iteration

\* C1: if the combined score of iteration i is >= the target, the loop stops
\* at iteration i: the compliance evaluation of iteration i is the last call
\* of any agent (no Reviser in iteration i, nothing afterwards), and the loop
\* variable stays at i.
C1_StopsWhenTargetReached ==
    \A k \in 1..Len(calls) :
        (CompletesEvaluation(k)
           /\ calls[k - 1].score[1] + calls[k].score[1] >= 2 * Target) =>
             /\ k = Len(calls)
             /\ iteration = calls[k].iteration
             /\ pc \in {"decide", "scored", "return", "returned", "final", "done"}

\* The loop has stopped at iteration 2 with a combined score equal to the target
C1_Witness ==
    /\ Finished /\ Iterations = 2 /\ Len(calls) = 5
    /\ calls[4].score[1] + calls[5].score[1] = 2 * Target

\* C2 as stated: each agent is invoked at most max_iterations times and the
\* iteration counter never exceeds max_iterations, for any integer
\* max_iterations.
C2_AtMostMaxIterations ==
    /\ \A a \in {"reviewer", "compliance", "reviser"} :
          Cardinality(CallsOf(a)) <= max_iterations
    /\ iteration <= max_iterations
    /\ Iterations <= max_iterations

\* C2 amended: each agent is invoked at most max(max_iterations, 0) times and
\* the iteration counter never exceeds max(max_iterations, 0).
C2_AtMostMaxIterationsOrZero ==
    /\ \A a \in {"reviewer", "compliance", "reviser"} :
          Cardinality(CallsOf(a)) <= Max(max_iterations, 0)
    /\ iteration <= Max(max_iterations, 0)
    /\ Iterations <= Max(max_iterations, 0)

\* Every agent has been invoked max_iterations >= 2 times
C2_Witness ==
    /\ Finished /\ max_iterations >= 2
    /\ \A a \in {"reviewer", "compliance", "reviser"} :
          Cardinality(CallsOf(a)) = max_iterations

\* The score an evaluator returned in iteration i
ReturnedScore(agent, i) ==
    calls[CHOOSE k \in CallsOf(agent) : calls[k].iteration = i /\ Succeeded(k)].score[1]

\* The iterations whose combined score has been computed
Aggregated ==
    {i \in 1..iteration :
        /\ \E k \in CallsOf("compliance") : calls[k].iteration = i /\ Succeeded(k)
        /\ ~(pc = "decide" /\ i = iteration)}

\* C3: the combined score compared with the target and recorded in an
\* iteration is exactly the mean of the two scores the evaluators returned in
\* that iteration (twice the combined score is their sum).
C3_CombinedIsMean ==
    /\ (Aggregated # {}) =>
          LET i == CHOOSE i \in Aggregated : \A j \in Aggregated : j <= i
          IN 2 * Score = ReturnedScore("reviewer", i) + ReturnedScore("compliance", i)
    /\ variant = "app" =>
          /\ Len(score_history) = Cardinality(Aggregated)
          /\ \A i \in Aggregated :
                /\ score_history[i].review = ReturnedScore("reviewer", i)
                /\ score_history[i].compliance = ReturnedScore("compliance", i)
                /\ 2 * score_history[i].combined =
                       ReturnedScore("reviewer", i) + ReturnedScore("compliance", i)

\* Two iterations with different scores; the second mean is 32.5
C3_Witness ==
    /\ variant = "app" /\ Len(score_history) = 2
    /\ score_history[1].combined = F(0)
    /\ score_history[2].review = F(15) /\ score_history[2].compliance = F(50)
    /\ score_history[2].combined = F(32) + 1

\* The run ended normally by convergence
Converged == Finished /\ Iterations >= 1 /\ Score >= Target

\* The run ended normally without convergence
Exhausted == Finished /\ Iterations >= 1 /\ Score < Target

\* C4: after convergence at iteration i the final document is the version
\* evaluated in iteration i, v{i-1} (the initial path when i = 1), and the
\* run has written no file <stem>_v{i}.
C4_ConvergedKeepsEvaluatedVersion ==
    Converged =>
        /\ FinalPath = VersionPath(Iterations - 1)
        /\ calls[Len(calls)].csr_path = FinalPath
        /\ IterCsrPath(csr_dir, csr_stem, Iterations) \notin Written

\* improve_csr_until_confident has converged at iteration 2 on <stem>_v1
C4_Witness ==
    /\ variant = "main" /\ Converged /\ iterations_done = 2
    /\ result.final_csr_path = IterCsrPath(csr_dir, csr_stem, 1)

\* C5: when max_iterations >= 1 iterations run without reaching the target,
\* the loop ends normally after iteration max_iterations and the final
\* document is the revision of that iteration, <stem>_v{max_iterations}.
C5_ExhaustedKeepsLastRevision ==
    /\ (max_iterations >= 1 /\ Exhausted) =>
          /\ Iterations = max_iterations
          /\ FinalPath = IterCsrPath(csr_dir, csr_stem, max_iterations)
          /\ calls[Len(calls)].agent = "reviser"
          /\ calls[Len(calls)].output_path = FinalPath
          /\ FinalPath \in Written
    /\ (max_iterations >= 1 /\ Len(calls) = 3 * max_iterations
          /\ Succeeded(Len(calls))) =>
          /\ pc \in {"loop", "return", "returned", "final", "done"}
          /\ Score < Target

\* improve_csr_until_confident has run 2 of 2 iterations below the target
C5_Witness ==
    /\ variant = "main" /\ Exhausted /\ max_iterations = 2
    /\ result.iterations = 2
    /\ result.final_csr_path = IterCsrPath(csr_dir, csr_stem, 2)

\* C6: called with max_iterations < 1 the loop fails with an
\* invalid-configuration error instead of returning a normal result: no such
\* run ends normally (improve_csr_until_confident returned, or
\* run_full_pipeline_stream at its yield "Done").
C6_InvalidConfigurationFails ==
    max_iterations < 1 => ~Finished

\* C7: with max_iterations <= 0 no iteration runs: no Evaluator and no
\* Reviser is invoked, the loop writes no file, and the initial version is
\* final with score 0 and iteration count 0.
C7_NoIterationNoEffect ==
    max_iterations <= 0 =>
        /\ calls = <<>>
        /\ iteration = 0
        /\ Written \subseteq (IF variant = "app" THEN {initial_csr_path} ELSE {})
        /\ pc = "returned" =>
              /\ result.final_csr_path = initial_csr_path
              /\ result.final_score = F(0)
              /\ result.iterations = 0
              /\ result.review_report_path = <<>>
              /\ result.compliance_report_path = <<>>
        /\ pc = "done" =>
              /\ latest_csr_path = initial_csr_path
              /\ combined_score = F(0)
              /\ current_iteration = 0
              /\ score_history = <<>>

\* run_full_pipeline_stream has ended with status Done for max_iterations <= 0
C7_Witness ==
    /\ variant = "app" /\ max_iterations <= 0 /\ pc = "done"
    /\ latest_csr_path = initial_csr_path

\* C10: a call of an Evaluator or of the Reviser that raises is the last call
\* of the run (no retry, nothing afterwards) and the loop is aborted; after a
\* failed Evaluator the stopping rule is not applied, no iteration record is
\* appended and the Reviser is not invoked for that iteration.
C10_FailureAborts ==
    \A k \in 1..Len(calls) :
        ~Succeeded(k) =>
            /\ k = Len(calls)
            /\ Failed
            /\ \A j \in 1..(k - 1) : Succeeded(j)
            /\ calls[k].agent \in {"reviewer", "compliance"} =>
                  /\ Cardinality(Aggregated) = calls[k].iteration - 1
                  /\ Len(score_history) = IF variant = "app" THEN calls[k].iteration - 1 ELSE 0
                  /\ \A j \in CallsOf("reviser") : calls[j].iteration < calls[k].iteration
                  /\ variant = "main" => (final_csr_path = None /\ result = None)

\* The compliance evaluation of iteration 2 has failed after a successful review
C10_Witness ==
    /\ variant = "app" /\ pc = "error" /\ Len(calls) = 5
    /\ calls[4].agent = "reviewer" /\ Succeeded(4)
    /\ calls[5].agent = "compliance" /\ calls[5].fail = "llm"
    /\ Len(score_history) = 1

\* What the outcome of the run carries of the scores: run_full_pipeline_stream
\* renders score_history into every snapshot, the Error snapshot included;
\* improve_csr_until_confident keeps no history, and the exception of the
\* agent that leaves it carries none
CarriedHistory == IF variant = "app" THEN score_history ELSE <<>>

\* C11: a run aborted by a failing agent ends in a failure state that is not
\* a normal termination and that carries one score record for every iteration
\* whose combined score was computed before the failure.
C11_FailureCarriesHistory ==
    pc \in {"raised", "error"} =>
        /\ ~Finished
        /\ Len(CarriedHistory) = Cardinality(Aggregated)
        /\ \A i \in Aggregated :
              /\ CarriedHistory[i].iteration = i
              /\ CarriedHistory[i].review = ReturnedScore("reviewer", i)
              /\ CarriedHistory[i].compliance = ReturnedScore("compliance", i)

\* C12: the version written by the Reviser in iteration i is <stem>_v{i} and
\* revises version i-1 (the initial document when i = 1); the iterations of
\* successive revisions increase strictly, and no path is written twice in
\* one run.
C12_VersionsIncreaseWrittenOnce ==
    /\ \A k \in CallsOf("reviser") :
          /\ calls[k].iteration >= 1
          /\ calls[k].output_path = IterCsrPath(csr_dir, csr_stem, calls[k].iteration)
          /\ calls[k].csr_path = VersionPath(calls[k].iteration - 1)
          /\ \A l \in CallsOf("reviser") :
                k < l => calls[l].iteration > calls[k].iteration
    /\ \A k, l \in 1..Len(writes) : k # l => writes[k] # writes[l]
    /\ \A i \in 1..iteration :
          Cardinality({k \in 1..Len(writes) : writes[k] = IterCsrPath(csr_dir, csr_stem, i)}) <= 1

\* Three revisions have written <stem>_v1, <stem>_v2 and <stem>_v3
C12_Witness ==
    /\ Cardinality(CallsOf("reviser")) = 3
    /\ \A i \in 1..3 : IterCsrPath(csr_dir, csr_stem, i) \in Written
    /\ Succeeded(Len(calls))

\* The name the scheme gives the artifact of one kind for one iteration:
\* <stem>_v{i}.docx, <stem>_review_v{i}.docx, <stem>_compliance_v{i}.docx, in
\* the directory of the initial document
SchemeName(kind, i) ==
    JoinPath(csr_dir,
             csr_stem \o (CASE kind = "reviser" -> <<>>
                            [] kind = "reviewer" -> <<"_review">>
                            [] kind = "compliance" -> <<"_compliance">>)
                      \o <<"_v">> \o Dec(i) \o <<".", "docx">>)

\* C15: in iteration i >= 1 the reviewer writes <stem>_review_v{i}, the
\* compliance evaluator <stem>_compliance_v{i} and the Reviser <stem>_v{i};
\* version 0 is the initial document, whose file name is the bare stem with
\* at most an extension after it; the Reviser is handed the two reports of its
\* own iteration; and two calls that differ in agent or iteration never share
\* an output path, nor does any of them write to the initial document.
C15_FilenameScheme ==
    /\ LET name == csr_base[initial_csr_path].name IN
          \/ name = csr_stem
          \/ /\ Len(name) = Len(csr_stem) + 2
             /\ SubSeq(name, 1, Len(csr_stem)) = csr_stem
             /\ name[Len(csr_stem) + 1] = "."
    /\ VersionPath(0) = initial_csr_path
    /\ \A k \in 1..Len(calls) :
          /\ calls[k].output_path = SchemeName(calls[k].agent, calls[k].iteration)
          /\ calls[k].output_path # initial_csr_path
          /\ calls[k].agent = "reviser" =>
                /\ calls[k].review_path = SchemeName("reviewer", calls[k].iteration)
                /\ calls[k].compliance_path = SchemeName("compliance", calls[k].iteration)
          /\ \A l \in 1..Len(calls) :
                (calls[k].agent # calls[l].agent \/ calls[k].iteration # calls[l].iteration)
                    => calls[k].output_path # calls[l].output_path

\* The second iteration has produced its three artifacts on a stem that ends
\* in a version suffix itself
C15_Witness ==
    /\ Len(calls) >= 6 /\ Succeeded(6) /\ calls[6].agent = "reviser"
    /\ csr_stem = <<"generated_csr", "_v", "1">>
    /\ calls[4].output_path = <<"generated_csr", "_v", "1", "_review", "_v", "2", ".", "docx">>
    /\ calls[5].output_path = <<"generated_csr", "_v", "1", "_compliance", "_v", "2", ".", "docx">>
    /\ calls[6].output_path = <<"generated_csr", "_v", "1", "_v", "2", ".", "docx">>

\* The successful call of an evaluator in iteration i
EvaluationOf(agent, i) ==
    CHOOSE k \in CallsOf(agent) : calls[k].iteration = i /\ Succeeded(k)

\* The Reviser is the next agent to run in iteration i: the loop is at its
\* call, or (run_full_pipeline_stream) suspended at "Scores updated" with a
\* combined score below the target
ReviserIsNext(i) ==
    /\ iteration = i
    /\ \/ pc = "revise"
       \/ pc = "scored" /\ combined_score < target_confidence

\* The Reviser has been invoked in iteration i, or is the very next step of it
ProceedsToRevise(i) ==
    \/ ReviserIsNext(i)
    \/ \E k \in CallsOf("reviser") : calls[k].iteration = i

\* C16 as stated: whenever an evaluator output of an iteration holds no score
\* line and the target is positive, the loop invokes the Reviser in that
\* iteration.
C16_MissingScoreProceedsToRevise ==
    \A i \in Aggregated :
        (Target > 0 /\ \E a \in {"reviewer", "compliance"} :
                           ~calls[EvaluationOf(a, i)].scored)
            => ProceedsToRevise(i)

\* C16 amended: an evaluator output without a score line does not abort the
\* loop and yields the score 0.0; when neither evaluator output of an
\* iteration holds a score line the combined score is 0.0 and, for any
\* positive target, the loop invokes the Reviser in that iteration.
C16_NoScoreLineIsZeroAndRevised ==
    /\ \A k \in CallsOf("reviewer") \cup CallsOf("compliance") :
          (Succeeded(k) /\ ~calls[k].scored) =>
              /\ calls[k].score = <<F(0)>>
              /\ k = Len(calls) => ~Failed
    /\ \A i \in Aggregated :
          (/\ ~calls[EvaluationOf("reviewer", i)].scored
           /\ ~calls[EvaluationOf("compliance", i)].scored) =>
              /\ i = iteration => Score = F(0)
              /\ variant = "app" => score_history[i].combined = F(0)
              /\ Target > 0 => ProceedsToRevise(i)

\* Neither evaluator output of iteration 2 held a score line, the target is
\* positive and the Reviser has written the revision of iteration 2
C16_Witness ==
    /\ Target > 0 /\ Len(calls) = 6 /\ Succeeded(6)
    /\ calls[4].agent = "reviewer" /\ ~calls[4].scored /\ calls[4].score = <<F(0)>>
    /\ calls[5].agent = "compliance" /\ ~calls[5].scored /\ calls[5].score = <<F(0)>>
    /\ calls[6].agent = "reviser" /\ calls[6].iteration = 2

\* The score history holds one record for each iteration whose evaluations
\* completed and were aggregated, with the indices 1..k in order
HistoryMatchesIterations ==
    variant = "app" =>
        /\ Len(score_history) = Cardinality(Aggregated)
        /\ Aggregated = 1..Len(score_history)
        /\ \A i \in 1..Len(score_history) : score_history[i].iteration = i

\* A step leaves every existing record of the score history in place and
\* adds at most one record at the end
HistoryStepAppends ==
    /\ Len(score_history') \in {Len(score_history), Len(score_history) + 1}
    /\ SubSeq(score_history', 1, Len(score_history)) = score_history

\* C18: the score history of run_full_pipeline_stream is append-only and
\* holds exactly one record per iteration whose two evaluations completed:
\* after k such iterations its length is k, its records carry the indices
\* 1..k in order, and no step modifies or removes an existing record.
C18_HistoryAppendOnly ==
    /\ []HistoryMatchesIterations
    /\ [][HistoryStepAppends]_vars

\* Three iterations have been recorded
C18_Witness ==
    /\ variant = "app" /\ Len(score_history) = 3
    /\ score_history[3].iteration = 3 /\ score_history[1].iteration = 1
    /\ score_history[1].review # score_history[3].review

\* The combined score of an aggregated iteration, from the evaluators' scores
CombinedOf(i) == Combined(ReturnedScore("reviewer", i), ReturnedScore("compliance", i))

\* The best combined score of the run
BestScore == CHOOSE s \in {CombinedOf(i) : i \in Aggregated} :
                 \A i \in Aggregated : CombinedOf(i) <= s

\* C14: a run of improve_csr_until_confident that exhausts max_iterations
\* without converging returns normally, and the returned result carries
\* iterations_exhausted = true and the maximum combined score over all
\* iterations.
C14_ExhaustionFlagged ==
    (variant = "main" /\ max_iterations >= 1 /\ Len(calls) = 3 * max_iterations
        /\ Succeeded(Len(calls)) /\ pc \notin {"loop", "return"}) =>
            /\ pc = "returned"
            /\ "iterations_exhausted" \in DOMAIN result
            /\ result["iterations_exhausted"] = TRUE
            /\ result.final_score = BestScore

\* The run is over: improve_csr_until_confident has returned its dict or has
\* been left by an exception; run_full_pipeline_stream has yielded its Done
\* or its Error snapshot
Terminated == pc \in {"returned", "raised", "done", "error", "crashed"}

\* The way the run ended, when it is over
EndedBy ==
    CASE Failed \/ pc = "crashed" -> "failure"
      [] Finished /\ Iterations >= 1 /\ Score >= Target -> "convergence"
      [] Finished /\ ~(Iterations >= 1 /\ Score >= Target) -> "exhaustion"
      [] OTHER -> "running"

\* improve_csr_until_confident has built its result dict
HasResult == DOMAIN result # {}

\* Once the terminal result is there, no step produces another or changes it
TerminalResultStays ==
    /\ Terminated => (pc' = pc /\ score_history' = score_history)
    /\ HasResult => result' = result

\* C17: every run, whatever the configuration, the scores and the failure
\* points, eventually ends by convergence, exhaustion or failure, and the
\* terminal result (the returned dict, the Done or the Error snapshot) is
\* produced once: after it no step produces or changes a result.
C17_TerminatesOnce ==
    /\ <>[](Terminated /\ EndedBy \in {"convergence", "exhaustion", "failure"})
    /\ [](HasResult <=> (variant = "main" /\ pc = "returned"))
    /\ [][TerminalResultStays]_vars

\* A run of at least four calls is over, and the way it ended agrees with its
\* last call: a failed call, a revision (exhaustion) or an evaluation
C17_Witness ==
    /\ Terminated /\ Len(calls) >= 4
    /\ EndedBy = (IF Succeeded(Len(calls))
                  THEN (IF calls[Len(calls)].agent = "reviser" THEN "exhaustion" ELSE "convergence")
                  ELSE "failure")
    /\ max_iterations = 2

\* ---------------------------------------------------------------- documents
\* utils/file_utils.py and custom_agents/types.py: the .docx files the agents
\* read and write.  A text is a sequence of characters; "\n" ends a line.

\* str.strip() == "": the text holds nothing but white space
StrBlank(text) == \A i \in 1..Len(text) : text[i] \in WhiteSpace

\* text.split("\n")
RECURSIVE Split(_)
Split(text) ==
    IF \A i \in 1..Len(text) : text[i] # "\n" THEN <<text>>
    ELSE LET n == CHOOSE i \in 1..Len(text) :
                      text[i] = "\n" /\ \A j \in 1..(i - 1) : text[j] # "\n"
         IN <<SubSeq(text, 1, n - 1)>> \o Split(SubSeq(text, n + 1, Len(text)))

\* "\n".join(paragraphs)
RECURSIVE Join(_)
Join(paragraphs) ==
    IF paragraphs = <<>> THEN <<>>
    ELSE IF Len(paragraphs) = 1 THEN paragraphs[1]
    ELSE paragraphs[1] \o <<"\n">> \o Join(Tail(paragraphs))

\* write_docx_text: a new Document with one paragraph per line, saved at the
\* path, whatever the path held before
write_docx_text(d, path, text) == [d EXCEPT ![path] = <<Split(text)>>]

\* read_docx_text: the paragraphs that are not blank, joined by "\n"
read_docx_text(d, path) == Join(SelectSeq(d[path][1], LAMBDA p : ~StrBlank(p)))

\* CsrDocument.filename
CsrFilename(nct_id, version) == <<"CSR_", nct_id, "_v">> \o Dec(version) \o <<".", "docx">>

\* The files of the store: version 1 of a document and its two reports, and
\* the files of the CsrDocument versions 0 and 1 of one study
VersionFile == IterCsrPath(csr_base[GENERATED_CSR_PATH].parent, csr_base[GENERATED_CSR_PATH].stem, 1)
ReviewFile == IterReviewPath(csr_base[GENERATED_CSR_PATH].parent, csr_base[GENERATED_CSR_PATH].stem, 1)
ComplianceFile == IterCompliancePath(csr_base[GENERATED_CSR_PATH].parent, csr_base[GENERATED_CSR_PATH].stem, 1)
CsrVersions == 0..1
StorePaths == {VersionFile, ReviewFile, ComplianceFile} \cup
              {CsrFilename("NCT1", v) : v \in CsrVersions}

\* The texts handed to the writers: empty, blank lines only, one line, and
\* lines with a blank line (a tab) between them
DocTexts == { <<>>, <<" ", "\t", "\n">>, <<"", " ", "">>, <<"x">>,
              <<"x", "\n", "\t", "\n", "x">> }

\* No file exists
EmptyDisk == [p \in StorePaths |-> <<>>]

\* The outcome of an operation on the store
\* (text: the text the operation had to write, when it got as far as having
\* one; returned: the path it returned, when it returned)
Outcome(kind, path, target, blank, d, raised, llm, text, returned) ==
    [kind |-> kind, path |-> path, target |-> target, blank |-> blank,
     existed |-> disk[target] # <<>>, kept |-> d[target] = disk[target],
     raised |-> raised, llm |-> llm, text |-> text, returned |-> returned]

\* The failure point of a call that reads the given files: a missing file
\* makes the read raise, whatever else might have failed later
ReadFail(paths, fail) == IF \E p \in paths : disk[p] = <<>> THEN "read" ELSE fail

\* The documents the evaluators and the Reviser are pointed at
SourcePaths == {VersionFile, CsrFilename("NCT1", 0)}

\* The failure points of a call on the store besides the missing file: none,
\* or the request to the model
StoreFails == {"none", "llm"}

\* The answers of the model to the evaluators on the store: without a score
\* line, and with one
StoreReviewTexts == {<<"x">>, <<COMPLETENESS_LABEL, ":", " ", "1", "5">>}
StoreComplianceTexts == {<<>>, <<COMPLIANCE_LABEL, ":", "5", "0">>}

\* The store with the documents of an earlier run, or without
InitStore ==
    /\ disk \in {EmptyDisk, [EmptyDisk EXCEPT ![VersionFile] = <<Split(<<"x">>)>>]}
    /\ op = [kind |-> "none"]
    /\ main_run = NoRun
    /\ TwoIdle
    /\ snapshots = <<>>
    /\ agents = NewAgents
    /\ ptext = <<>> /\ pagent = "none" /\ pscore = None
    /\ pc = "store"
    /\ variant = "none"
    /\ settings = "numbers"
    /\ max_iterations = 0 /\ target_score = F(0) /\ target_confidence = F(0)
    /\ initial_csr_path = <<>>
    /\ iteration = 0
    /\ review_report_path = <<>> /\ compliance_report_path = <<>>
    /\ compliance_score = None
    /\ current_csr_path = None /\ final_score = F(0) /\ review_score = None
    /\ iterations_done = 0 /\ final_csr_path = None /\ result = None
    /\ latest_csr_path = None /\ combined_score = F(0) /\ reviewer_score = F(0)
    /\ current_iteration = 0 /\ score_history = <<>>
    /\ calls = <<>> /\ writes = <<>>

\* CsrDocument(nct_id, markdown, version): the validator write_to_file
StoreCsrDocument ==
    /\ pc = "store"
    /\ \E version \in CsrVersions, markdown \in DocTexts :
          LET path == CsrFilename("NCT1", version)
              raised == StrBlank(markdown)
              d == IF raised THEN disk ELSE write_docx_text(disk, path, markdown)
          IN /\ disk' = d
             /\ op' = Outcome("CsrDocument", path, path, StrBlank(markdown), d, raised, FALSE,
                              markdown, IF raised THEN <<>> ELSE path)
    /\ UNCHANGED <<pc, config_vars, iteration, review_report_path, compliance_report_path,
                   compliance_score, main_vars, app_vars, calls, writes, parse_vars, main_run, two_vars, snapshots, agents>>

\* ReviewerAgent.review_document on the files of the store
StoreReview ==
    /\ pc = "store"
    /\ \E csr_path \in SourcePaths, text \in StoreReviewTexts, fail \in StoreFails :
          LET f == ReadFail({csr_path}, fail)
              r == review_document(ReviewerAgent, csr_path, ReviewFile, text, f)
              d == IF r.wrote # <<>> THEN write_docx_text(disk, ReviewFile, text) ELSE disk
              blank == IF disk[csr_path] = <<>> THEN FALSE
                       ELSE StrBlank(read_docx_text(disk, csr_path))
          IN /\ disk' = d
             /\ op' = Outcome("review_document", csr_path, ReviewFile, blank, d,
                              ~r.ok, f \in {"none", "llm", "write"},
                              IF f \in {"none", "write"} THEN text ELSE <<>>,
                              IF r.ok THEN r.path ELSE <<>>)
    /\ UNCHANGED <<pc, config_vars, iteration, review_report_path, compliance_report_path,
                   compliance_score, main_vars, app_vars, calls, writes, parse_vars, main_run, two_vars, snapshots, agents>>

\* ComplianceAgent.check_regulatory_compliance on the files of the store
StoreCompliance ==
    /\ pc = "store"
    /\ \E csr_path \in SourcePaths, text \in StoreComplianceTexts, fail \in StoreFails :
          LET f == ReadFail({csr_path}, fail)
              r == check_regulatory_compliance(ComplianceAgent, csr_path, ComplianceFile, text, f)
              d == IF r.wrote # <<>> THEN write_docx_text(disk, ComplianceFile, text) ELSE disk
              blank == IF disk[csr_path] = <<>> THEN FALSE
                       ELSE StrBlank(read_docx_text(disk, csr_path))
          IN /\ disk' = d
             /\ op' = Outcome("check_regulatory_compliance", csr_path, ComplianceFile, blank, d,
                              ~r.ok, f \in {"none", "llm", "write"},
                              IF f \in {"none", "write"} THEN text ELSE <<>>,
                              IF r.ok THEN r.path ELSE <<>>)
    /\ UNCHANGED <<pc, config_vars, iteration, review_report_path, compliance_report_path,
                   compliance_score, main_vars, app_vars, calls, writes, parse_vars, main_run, two_vars, snapshots, agents>>

\* ReviserAgent.revise_document on the files of the store: the revised text
\* is what the model answered
StoreRevise ==
    /\ pc = "store"
    /\ \E csr_path \in SourcePaths, revised_text \in DocTexts, fail \in StoreFails :
          LET f == ReadFail({csr_path, ReviewFile, ComplianceFile}, fail)
              r == revise_document(ReviserAgent, csr_path, ReviewFile, ComplianceFile, VersionFile, f)
              d == IF r.wrote # <<>> THEN write_docx_text(disk, VersionFile, revised_text)
                   ELSE disk
          IN /\ disk' = d
             /\ op' = Outcome("revise_document", csr_path, VersionFile,
                              StrBlank(revised_text), d,
                              ~r.ok, f \in {"none", "llm", "write"},
                              IF f \in {"none", "write"} THEN revised_text ELSE <<>>,
                              IF r.ok THEN r.path ELSE <<>>)
    /\ UNCHANGED <<pc, config_vars, iteration, review_report_path, compliance_report_path,
                   compliance_score, main_vars, app_vars, calls, writes, parse_vars, main_run, two_vars, snapshots, agents>>

NextStore == StoreCsrDocument \/ StoreReview \/ StoreCompliance \/ StoreRevise

SpecStore == InitStore /\ [][NextStore]_vars

\* C13: a write to a version path that already holds a document does not
\* replace it: the operation fails and the file is what it was.
C13_VersionPathsWriteOnce ==
    (op.kind \in {"revise_document", "CsrDocument"} /\ op.existed) =>
        /\ op.raised
        /\ op.kept

\* C19: an evaluator pointed at a document whose text is blank raises without
\* asking the model and without writing its report, and no operation writes a
\* document version whose content is blank.
C19_BlankDocumentRejected ==
    /\ (op.kind \in {"review_document", "check_regulatory_compliance"} /\ op.blank) =>
          /\ op.raised
          /\ ~op.llm
          /\ op.kept
    /\ \A p \in {VersionFile} \cup {CsrFilename("NCT1", v) : v \in CsrVersions} :
          disk[p] # <<>> => ~StrBlank(read_docx_text(disk, p))

\* ------------------------------------------------------------ cancellation
\* Neither loop reads a stop request.  The one way to stop a run from outside
\* is the consumer of the generator run_full_pipeline_stream, which may close
\* it where it is suspended, at a yield: GeneratorExit is raised there, the
\* clause "except Exception" does not catch it, and the generator ends.

\* The positions at which run_full_pipeline_stream is suspended at a yield
YieldPoints == {"start", "compose", "loop", "review", "compliance", "decide", "scored", "revise"}

\* The consumer closes the generator
AppClose ==
    /\ variant = "app" /\ pc \in YieldPoints
    /\ pc' = "closed"
    /\ UNCHANGED <<config_vars, iteration, review_report_path, compliance_report_path,
                   compliance_score, main_vars, app_vars, calls, writes, parse_vars,
                   store_vars, main_run, two_vars, snapshots, agents>>

NextCancel == Next \/ AppClose

SpecCancel == Init /\ [][NextCancel]_vars

\* C20: a run is stopped from outside only at the top of an iteration, when
\* the calls of the iteration before have finished: at the moment it is
\* stopped no evaluation is waiting for its revision (the last call, if any,
\* is a Reviser's).
C20_StoppedOnlyBetweenIterations ==
    pc = "closed" => (calls = <<>> \/ calls[Len(calls)].agent = "reviser")

\* The loop's reference to the current document version
CurrentVersion == IF variant = "main" THEN current_csr_path ELSE latest_csr_path

\* An aggregated iteration whose combined score is below the target
NonConverging(i) ==
    i \in Aggregated /\
    ReturnedScore("reviewer", i) + ReturnedScore("compliance", i) < 2 * Target

\* C21: in every non-converging iteration i the Reviser is invoked exactly
\* once (or is the very next step), directly after the two evaluations of
\* iteration i, on the document both of them evaluated and with the two
\* report paths they wrote; in a converging iteration it is not invoked; when
\* it has returned, the current version is <stem>_v{i}.
C21_ReviserOncePerNonConvergingIteration ==
    /\ \A i \in 1..iteration :
          LET revs == {k \in CallsOf("reviser") : calls[k].iteration = i} IN
          /\ Cardinality(revs) <= 1
          /\ NonConverging(i) => (Cardinality(revs) = 1 \/ ReviserIsNext(i))
          /\ (i \in Aggregated /\ ~NonConverging(i)) => revs = {}
    /\ \A k \in CallsOf("reviser") :
          /\ k >= 3
          /\ CompletesEvaluation(k - 1)
          /\ calls[k - 1].iteration = calls[k].iteration
          /\ NonConverging(calls[k].iteration)
          /\ calls[k].csr_path = calls[k - 1].csr_path
          /\ calls[k].csr_path = calls[k - 2].csr_path
          /\ calls[k].review_path = calls[k - 2].output_path
          /\ calls[k].compliance_path = calls[k - 1].output_path
          /\ {calls[k - 2].output_path, calls[k - 1].output_path} \subseteq Written
          /\ (k = Len(calls) /\ Succeeded(k)) =>
                /\ CurrentVersion = IterCsrPath(csr_dir, csr_stem, calls[k].iteration)
                /\ CurrentVersion = calls[k].output_path

\* The Reviser of iteration 2 has returned: it revised <stem>_v1 with the
\* reports of iteration 2 and the current version is <stem>_v2
C21_Witness ==
    /\ Len(calls) = 6 /\ Succeeded(6) /\ calls[6].agent = "reviser"
    /\ calls[6].csr_path = IterCsrPath(csr_dir, csr_stem, 1)
    /\ calls[6].review_path = IterReviewPath(csr_dir, csr_stem, 2)
    /\ CurrentVersion = IterCsrPath(csr_dir, csr_stem, 2)

\* The documents that exist completely: those a call has written and returned
\* from, and the document improve_csr_until_confident was entered with
\* (run_pipeline enters it with the document its composer has written; until
\* then no document exists)
CompleteDocuments ==
    Written \cup (IF variant = "main" /\ current_csr_path # None
                  THEN {initial_csr_path} ELSE {})

\* A step in which a call of an agent fails
FailingStep == Len(calls') = Len(calls) + 1 /\ calls'[Len(calls')].fail # "none"

\* A step that reassigns the current version is the return of a successful
\* Reviser call (or, in run_full_pipeline_stream and run_pipeline, of the
\* composer, whose document the loop starts with), and the new
\* value is the path that call has written
ReassignedOnReturnOnly ==
    CurrentVersion' # CurrentVersion =>
        /\ CurrentVersion' \in {writes'[k] : k \in 1..Len(writes')}
        /\ Len(writes') = Len(writes) + 1
        /\ CurrentVersion' = writes'[Len(writes')]
        /\ \/ Len(calls') = Len(calls) + 1
                 /\ calls'[Len(calls')].agent = "reviser"
                 /\ calls'[Len(calls')].fail = "none"
                 /\ calls'[Len(calls')].output_path = CurrentVersion'
           \/ variant = "app" /\ pc = "compose" /\ calls' = calls
           \/ variant = "main" /\ pc = "pipeline" /\ calls' = calls

\* C22: a step in which the Reviser or an Evaluator fails leaves the current
\* version as it was; the current version is reassigned only by the return of
\* a call that has written the new document; so it always names a document
\* that was written completely.
C22_CurrentVersionIsComplete ==
    /\ [](CurrentVersion # None => CurrentVersion \in CompleteDocuments)
    /\ [][FailingStep => CurrentVersion' = CurrentVersion]_vars
    /\ [][ReassignedOnReturnOnly]_vars

\* The Reviser of iteration 2 has failed while writing; the current version
\* is still <stem>_v1
C22_Witness ==
    /\ Len(calls) = 6 /\ calls[6].agent = "reviser" /\ calls[6].fail = "write"
    /\ Failed
    /\ CurrentVersion = IterCsrPath(csr_dir, csr_stem, 1)
    /\ IterCsrPath(csr_dir, csr_stem, 2) \notin Written

\* C23: an evaluator call on the store that received the model's text and
\* returned has written exactly that text, line by line, to the report path
\* it was given, and returns that path, whether or not the text held a score
\* line; an evaluator call that raised before it had a text wrote nothing.
C23_ReportWrittenWhateverTheScore ==
    op.kind \in {"review_document", "check_regulatory_compliance"} =>
        /\ op.target = (IF op.kind = "review_document" THEN ReviewFile ELSE ComplianceFile)
        /\ ~op.raised =>
              /\ op.llm
              /\ disk[op.target] = <<Split(op.text)>>
              /\ read_docx_text(disk, op.target) = op.text \/ StrBlank(op.text)
              /\ op.returned = op.target
        /\ op.raised => (op.kept /\ op.returned = <<>>)

\* The reviewer's text held no score line (score 0.0) and is the report now
C23_Witness ==
    /\ op.kind = "review_document" /\ ~op.raised
    /\ op.text = <<"x">> /\ ReviewerParseScore(op.text) = F(0)
    /\ re_search(op.text, COMPLETENESS_LABEL, 1) = <<>>
    /\ disk[ReviewFile] = <<<< <<"x">> >>>>
    /\ op.returned = ReviewFile

\* The iterations in which the reviewer was called
EvaluatedIterations == {calls[k].iteration : k \in CallsOf("reviewer")}

\* C24: when improve_csr_until_confident has returned, result.iterations is
\* the number of iterations in which the evaluators ran (0 when none ran, the
\* iteration of convergence, max_iterations on exhaustion), and the two report
\* paths of the result are the reports written in the last of them, or empty
\* when no iteration ran.
C24_ResultCountsIterations ==
    (variant = "main" /\ pc = "returned") =>
        LET n == result.iterations IN
        /\ n = Cardinality(EvaluatedIterations)
        /\ EvaluatedIterations = 1..n
        /\ n = IF max_iterations < 1 THEN 0
               ELSE IF result.final_score >= target_score
                    THEN calls[Len(calls)].iteration
                    ELSE max_iterations
        /\ n = 0 => (result.review_report_path = <<>> /\ result.compliance_report_path = <<>>)
        /\ n >= 1 =>
              /\ result.review_report_path =
                     JoinPath(csr_dir, csr_stem \o <<"_review", "_v">> \o Dec(n)
                                                \o <<".", "docx">>)
              /\ result.compliance_report_path =
                     JoinPath(csr_dir, csr_stem \o <<"_compliance", "_v">> \o Dec(n)
                                                \o <<".", "docx">>)
              /\ result.review_report_path = calls[EvaluationOf("reviewer", n)].output_path
              /\ result.compliance_report_path = calls[EvaluationOf("compliance", n)].output_path
              /\ {result.review_report_path, result.compliance_report_path} \subseteq Written

\* improve_csr_until_confident has returned after converging in iteration 2 of 3
C24_Witness ==
    /\ variant = "main" /\ pc = "returned" /\ max_iterations = 3
    /\ result.iterations = 2 /\ result.final_score >= target_score
    /\ result.review_report_path = IterReviewPath(csr_dir, csr_stem, 2)

\* The calls of the two evaluators
Evaluations == CallsOf("reviewer") \cup CallsOf("compliance")

\* C25: after exhaustion with max_iterations >= 1 the final document is
\* <stem>_v{max_iterations}, which no evaluator was ever given, and the final
\* score is the combined score of iteration max_iterations, whose evaluators
\* were given v{max_iterations - 1}; after convergence the final score is the
\* combined score of the evaluation of the final document itself.
C25_ExhaustedScoreIsOfPreviousVersion ==
    /\ (Exhausted /\ max_iterations >= 1) =>
          /\ FinalPath = IterCsrPath(csr_dir, csr_stem, max_iterations)
          /\ \A k \in Evaluations : calls[k].csr_path # FinalPath
          /\ 2 * Score = ReturnedScore("reviewer", max_iterations)
                           + ReturnedScore("compliance", max_iterations)
          /\ \A a \in {"reviewer", "compliance"} :
                /\ calls[EvaluationOf(a, max_iterations)].csr_path = VersionPath(max_iterations - 1)
                /\ calls[EvaluationOf(a, max_iterations)].csr_path # FinalPath
          /\ variant = "main" => result.final_score = Score
    /\ Converged =>
          /\ 2 * Score = ReturnedScore("reviewer", Iterations)
                           + ReturnedScore("compliance", Iterations)
          /\ \A a \in {"reviewer", "compliance"} :
                calls[EvaluationOf(a, Iterations)].csr_path = FinalPath
          /\ variant = "main" => result.final_score = Score

\* improve_csr_until_confident has exhausted 2 iterations: the final document
\* is <stem>_v2 and the final score 32.5 is that of <stem>_v1
C25_Witness ==
    /\ variant = "main" /\ Exhausted /\ max_iterations = 2
    /\ result.final_csr_path = IterCsrPath(csr_dir, csr_stem, 2)
    /\ result.final_score = F(32) + 1
    /\ calls[4].csr_path = IterCsrPath(csr_dir, csr_stem, 1) /\ calls[4].score = <<F(15)>>
    /\ calls[5].score = <<F(50)>>

\* The versions the run has produced: the revisions written
VersionsProduced == {k \in CallsOf("reviser") : Succeeded(k)}

\* C26: the document every evaluator is given in iteration i is version i-1
\* (the initial path in iteration 1); when the run has ended normally after n
\* iterations the Reviser has been invoked, and has produced a version, n-1
\* times if the loop converged and n times if it was exhausted.
C26_EvaluatedVersionAndRevisionCount ==
    /\ \A k \in Evaluations :
          /\ calls[k].iteration >= 1
          /\ calls[k].csr_path = VersionPath(calls[k].iteration - 1)
          /\ calls[k].iteration = 1 => calls[k].csr_path = initial_csr_path
          /\ calls[k].iteration >= 2 =>
                calls[k].csr_path =
                    JoinPath(csr_dir, csr_stem \o <<"_v">> \o Dec(calls[k].iteration - 1)
                                               \o <<".", "docx">>)
    /\ Converged =>
          /\ Cardinality(CallsOf("reviser")) = Iterations - 1
          /\ Cardinality(VersionsProduced) = Iterations - 1
    /\ Exhausted =>
          /\ Cardinality(CallsOf("reviser")) = Iterations
          /\ Cardinality(VersionsProduced) = Iterations

\* run_full_pipeline_stream has converged in iteration 3 after two revisions
C26_Witness ==
    /\ variant = "app" /\ Converged /\ current_iteration = 3
    /\ Cardinality(CallsOf("reviser")) = 2
    /\ calls[Len(calls)].csr_path = IterCsrPath(csr_dir, csr_stem, 2)

\* ------------------------------------------- the two entry points, compared
\* improve_csr_until_confident runs to its end and is put on record; then
\* run_full_pipeline_stream runs with the same configuration, its agents
\* answering call by call as they answered the first run.

\* (the streaming pipeline always starts from the composer's output path)
InitBoth ==
    /\ Init /\ variant = "main" /\ settings = "numbers" /\ pc = "loop"
    /\ max_iterations <= MaxComparedIterations
    /\ initial_csr_path = GENERATED_CSR_PATH

\* improve_csr_until_confident has ended: its calls and its result go on
\* record, and run_full_pipeline_stream starts with the same configuration
RecordMainRun ==
    /\ variant = "main" /\ pc \in {"returned", "raised"}
    /\ main_run' = [ended |-> pc, calls |-> calls, result |-> result]
    /\ variant' = "app" /\ pc' = "convert"
    /\ iteration' = 0
    /\ review_report_path' = <<>> /\ compliance_report_path' = <<>>
    /\ compliance_score' = F(0)
    /\ current_csr_path' = None /\ final_score' = F(0) /\ review_score' = None
    /\ iterations_done' = 0 /\ final_csr_path' = None /\ result' = None
    /\ latest_csr_path' = None /\ combined_score' = F(0) /\ reviewer_score' = F(0)
    /\ current_iteration' = 0 /\ score_history' = <<>>
    /\ calls' = <<>> /\ writes' = <<>>
    /\ agents' = NewAgents
    /\ UNCHANGED <<settings, max_iterations, target_score, target_confidence,
                   initial_csr_path, parse_vars, store_vars, two_vars, snapshots>>

\* The call made in this step is answered as the same call of the recorded
\* run was: it fails at the same point or returns the same score
Replays ==
    LET n == Len(calls') IN
    (n <= Len(main_run.calls) /\ calls'[n].agent = main_run.calls[n].agent) =>
        /\ calls'[n].fail = main_run.calls[n].fail
        /\ calls'[n].score = main_run.calls[n].score
        /\ calls'[n].scored = main_run.calls[n].scored

\* The steps of run_full_pipeline_stream in the comparison; the composer,
\* which is not part of the loop, succeeds
ReplayConvert == AppConvert /\ main_run # NoRun
ReplayKnowledge == AppKnowledge /\ pc' = "compose" /\ main_run # NoRun
ReplayCompose == AppCompose /\ pc' = "loop" /\ main_run # NoRun
ReplayLoopHead == AppLoopHead /\ main_run # NoRun
ReplayReviewer == AppReviewer /\ main_run # NoRun /\ Replays
ReplayCompliance == AppCompliance /\ main_run # NoRun /\ Replays
ReplayScores == AppScores /\ main_run # NoRun
ReplayDecide == AppDecide /\ main_run # NoRun
ReplayReviser == AppReviser /\ main_run # NoRun /\ Replays
ReplayDone == AppDone /\ main_run # NoRun
ReplayError == AppError /\ main_run # NoRun

NextBoth ==
    \/ MainLoopHead \/ MainReviewer \/ MainCompliance \/ MainDecide
    \/ MainReviser \/ MainReturn
    \/ RecordMainRun
    \/ ReplayConvert \/ ReplayKnowledge \/ ReplayCompose \/ ReplayLoopHead \/ ReplayReviewer \/ ReplayCompliance
    \/ ReplayScores \/ ReplayDecide \/ ReplayReviser \/ ReplayDone \/ ReplayError

SpecBoth == InitBoth /\ [][NextBoth]_vars

\* C27: run on the same initial document, target and max_iterations and
\* answered alike, run_full_pipeline_stream makes the calls
\* improve_csr_until_confident made, agent by agent with the same paths, and
\* ends as it ended: Done with the same final document, combined score and
\* iteration count where it returned, Error where it raised.
C27_StreamingLoopRepeatsMain ==
    (variant = "app" /\ main_run # NoRun) =>
        /\ Len(calls) <= Len(main_run.calls)
        /\ \A k \in 1..Len(calls) : calls[k] = main_run.calls[k]
        /\ pc \in {"done", "error"} =>
              /\ calls = main_run.calls
              /\ (pc = "done") = (main_run.ended = "returned")
              /\ pc = "done" =>
                    /\ latest_csr_path = main_run.result.final_csr_path
                    /\ combined_score = main_run.result.final_score
                    /\ current_iteration = main_run.result.iterations

\* Both entry points have converged in iteration 2 on <stem>_v1
C27_Witness ==
    /\ variant = "app" /\ pc = "done" /\ main_run # NoRun
    /\ Len(calls) = 5 /\ main_run.ended = "returned"
    /\ main_run.result.iterations = 2 /\ current_iteration = 2
    /\ latest_csr_path = IterCsrPath(csr_dir, csr_stem, 1)
    /\ main_run.result.final_csr_path = IterCsrPath(csr_dir, csr_stem, 1)

\* ------------------------------------------------------ two concurrent runs
\* Two runs of run_full_pipeline_stream at the same time, with the same
\* configured paths, on the same files. Every read and every write of a file
\* is a step of its own; the text a run writes is marked with the run.

Runs == 1..2

\* GENERATED_CSR_PATH, the composer's output_path, and its stem
TwoInitialPath == GENERATED_CSR_PATH
TwoStem == csr_base[TwoInitialPath].stem

\* The files the runs name
TwoPaths ==
    {TwoInitialPath} \cup
    UNION { {IterCsrPath(csr_base[TwoInitialPath].parent, TwoStem, i), IterReviewPath(csr_base[TwoInitialPath].parent, TwoStem, i),
             IterCompliancePath(csr_base[TwoInitialPath].parent, TwoStem, i)} : i \in 1..MaxConcurrentIterations }

\* The text a run's agents write, and the run a text comes from (0: none)
RunText(r) == <<"run">> \o Dec(r)
Owner(text) == IF \E r \in Runs : text = RunText(r)
               THEN CHOOSE r \in Runs : text = RunText(r) ELSE 0

\* The run whose text a file holds (0: the file does not exist)
WrittenBy(path) == IF files[path] = <<>> THEN 0 ELSE Owner(read_docx_text(files, path))

\* The variables of the single run, which stay as they are
single_vars == <<pc, config_vars, iteration, review_report_path, compliance_report_path,
                 compliance_score, main_vars, app_vars, calls, writes, parse_vars,
                 store_vars, main_run, snapshots, agents>>

InitTwo ==
    /\ snapshots = <<>>
    /\ agents = NewAgents
    /\ runs = [r \in Runs |-> [pc |-> "compose", iteration |-> 0, latest_csr_path |-> None]]
    /\ files = [p \in TwoPaths |-> <<>>]
    /\ io = [kind |-> "none"]
    /\ StoreIdle
    /\ main_run = NoRun
    /\ ptext = <<>> /\ pagent = "none" /\ pscore = None
    /\ pc = "two"
    /\ variant = "app"
    /\ settings = "numbers"
    /\ max_iterations = MaxConcurrentIterations
    /\ target_score = F(75) /\ target_confidence = F(75)
    /\ initial_csr_path = TwoInitialPath
    /\ iteration = 0
    /\ review_report_path = <<>> /\ compliance_report_path = <<>>
    /\ compliance_score = F(0)
    /\ current_csr_path = None /\ final_score = F(0) /\ review_score = None
    /\ iterations_done = 0 /\ final_csr_path = None /\ result = None
    /\ latest_csr_path = None /\ combined_score = F(0) /\ reviewer_score = F(0)
    /\ current_iteration = 0 /\ score_history = <<>>
    /\ calls = <<>> /\ writes = <<>>

\* Document(path) and its paragraphs, by run r, which goes on to position to;
\* a missing file makes the read raise
TwoRead(r, path, to) ==
    /\ io' = [kind |-> "read", run |-> r, path |-> path, by |-> WrittenBy(path)]
    /\ runs' = [runs EXCEPT ![r].pc = IF files[path] = <<>> THEN "error" ELSE to]
    /\ UNCHANGED files

\* The request to the generation service that an agent makes between its
\* reads and its write raises: the run goes to its except clause and touches
\* no further file
TwoRaise(r) ==
    /\ runs' = [runs EXCEPT ![r].pc = "error"]
    /\ UNCHANGED <<files, io>>

\* The request of an agent of run r returns and write_docx_text(path, text)
\* writes the answer, after which the run goes on to position to; or the
\* request raises
TwoWrite(r, path, to) ==
    \/ /\ io' = [kind |-> "write", run |-> r, path |-> path, by |-> WrittenBy(path)]
       /\ files' = write_docx_text(files, path, RunText(r))
       /\ runs' = [runs EXCEPT ![r].pc = to]
    \/ TwoRaise(r)

\* knowledge_agent.extract_sections() and
\* composer_agent.compose_document(extraction), which writes
\* GENERATED_CSR_PATH; when the request of either raises nothing is written
TwoCompose(r) ==
    /\ pc = "two" /\ runs[r].pc = "compose"
    /\ \/ /\ io' = [kind |-> "write", run |-> r, path |-> TwoInitialPath,
                    by |-> WrittenBy(TwoInitialPath)]
          /\ files' = write_docx_text(files, TwoInitialPath, RunText(r))
          /\ runs' = [runs EXCEPT ![r].pc = "loop", ![r].latest_csr_path = TwoInitialPath]
       \/ TwoRaise(r)
    /\ UNCHANGED single_vars

\* for iteration in range(1, max_iterations + 1):
TwoLoopHead(r) ==
    /\ pc = "two" /\ runs[r].pc = "loop"
    /\ runs' = IF runs[r].iteration + 1 \in Range(max_iterations)
               THEN [runs EXCEPT ![r].pc = "review_read",
                                 ![r].iteration = runs[r].iteration + 1]
               ELSE [runs EXCEPT ![r].pc = "done"]
    /\ UNCHANGED <<files, io, single_vars>>

\* reviewer_agent.review_document: read_docx_text(self.csr_path)
TwoReviewerRead(r) ==
    /\ pc = "two" /\ runs[r].pc = "review_read"
    /\ TwoRead(r, runs[r].latest_csr_path, "review_write")
    /\ UNCHANGED single_vars

\* reviewer_agent.review_document: write_docx_text(self.output_path, ...)
TwoReviewerWrite(r) ==
    /\ pc = "two" /\ runs[r].pc = "review_write"
    /\ TwoWrite(r, IterReviewPath(csr_base[TwoInitialPath].parent, TwoStem, runs[r].iteration), "compliance_read")
    /\ UNCHANGED single_vars

\* compliance_agent.check_regulatory_compliance: read_docx_text(self.csr_path)
TwoComplianceRead(r) ==
    /\ pc = "two" /\ runs[r].pc = "compliance_read"
    /\ TwoRead(r, runs[r].latest_csr_path, "compliance_write")
    /\ UNCHANGED single_vars

\* compliance_agent.check_regulatory_compliance: write_docx_text
TwoComplianceWrite(r) ==
    /\ pc = "two" /\ runs[r].pc = "compliance_write"
    /\ TwoWrite(r, IterCompliancePath(csr_base[TwoInitialPath].parent, TwoStem, runs[r].iteration), "decide")
    /\ UNCHANGED single_vars

\* if combined_score >= target_confidence: break, on whatever the two
\* evaluators scored
TwoDecide(r) ==
    /\ pc = "two" /\ runs[r].pc = "decide"
    /\ \E review, compliance \in {F(50), F(100)} :
          runs' = [runs EXCEPT ![r].pc =
                      IF TargetReached(Combined(review, compliance), target_confidence)
                      THEN "done" ELSE "revise_read_csr"]
    /\ UNCHANGED <<files, io, single_vars>>

\* reviser_agent.revise_document: the document and the two reports are read
\* one after the other
TwoReviserRead(r) ==
    /\ pc = "two"
    /\ \/ /\ runs[r].pc = "revise_read_csr"
          /\ TwoRead(r, runs[r].latest_csr_path, "revise_read_review")
       \/ /\ runs[r].pc = "revise_read_review"
          /\ TwoRead(r, IterReviewPath(csr_base[TwoInitialPath].parent, TwoStem, runs[r].iteration),
                     "revise_read_compliance")
       \/ /\ runs[r].pc = "revise_read_compliance"
          /\ TwoRead(r, IterCompliancePath(csr_base[TwoInitialPath].parent, TwoStem, runs[r].iteration), "revise_write")
    /\ UNCHANGED single_vars

\* reviser_agent.revise_document: write_docx_text(output_path, ...), and
\* latest_csr_path = revised_path
TwoReviserWrite(r) ==
    /\ pc = "two" /\ runs[r].pc = "revise_write"
    /\ \/ /\ io' = [kind |-> "write", run |-> r,
                    path |-> IterCsrPath(csr_base[TwoInitialPath].parent, TwoStem, runs[r].iteration),
                    by |-> WrittenBy(IterCsrPath(csr_base[TwoInitialPath].parent, TwoStem, runs[r].iteration))]
          /\ files' = write_docx_text(files, IterCsrPath(csr_base[TwoInitialPath].parent, TwoStem, runs[r].iteration),
                                      RunText(r))
          /\ runs' = [runs EXCEPT ![r].pc = "loop",
                                  ![r].latest_csr_path = IterCsrPath(csr_base[TwoInitialPath].parent, TwoStem, runs[r].iteration)]
       \/ TwoRaise(r)
    /\ UNCHANGED single_vars

NextTwo ==
    \E r \in Runs :
        \/ TwoCompose(r) \/ TwoLoopHead(r)
        \/ TwoReviewerRead(r) \/ TwoReviewerWrite(r)
        \/ TwoComplianceRead(r) \/ TwoComplianceWrite(r)
        \/ TwoDecide(r)
        \/ TwoReviserRead(r) \/ TwoReviserWrite(r)

SpecTwo == InitTwo /\ [][NextTwo]_vars

\* C28: of two runs on the same configured paths, each reads only what it
\* wrote itself, and none replaces a file the other wrote.
C28_RunsAreIsolated ==
    /\ io.kind = "read" => io.by = io.run
    /\ io.kind = "write" => io.by \in {0, io.run}

\* ------------------------------------------------- snapshots and progress
\* run_full_pipeline_stream, followed from yield to yield: a step is one
\* resumption of the generator, from the yield at which it is suspended to
\* the next one, with every assignment the code makes on the way.
\*
\* The progress of a snapshot is a float of the code, an IEEE 754 binary64
\* value, and the arithmetic on it is the arithmetic of the code: every
\* operation gives the exact result rounded to 53 significant bits, ties to
\* even.  A value x >= 0 is kept as the integer x * 2^75, written in seven
\* limbs of 15 bits, the least significant first: limbs 1 to 5 hold the
\* fraction, limbs 6 and 7 the whole part (1.0 is <<0, 0, 0, 0, 0, 1, 0>>).
\* Every float between 2^-20 and 2^29 is such a value, which covers the
\* progress values for every max_iterations below 2^15.

\* The base of the limbs
Base == 2^15

\* The places of the limbs
Limbs == 1..7

\* float(n) for an integer 0 <= n < 2^15
FromInt(n) == [k \in Limbs |-> IF k = 6 THEN n ELSE 0]

\* a < b
BigLess(a, b) == \E k \in Limbs : a[k] < b[k] /\ \A j \in Limbs : j > k => a[j] = b[j]

\* a + b, exactly, limb by limb with the carry of the limbs below
BigAdd(a, b) ==
    LET RECURSIVE carry(_)
        carry(k) == IF k = 1 THEN 0 ELSE (a[k - 1] + b[k - 1] + carry(k - 1)) \div Base
    IN [k \in Limbs |-> (a[k] + b[k] + carry(k)) % Base]

\* The float nearest to the exact result a (to a plus a fraction of its last
\* unit when inexact holds): the 53 highest bits of a are kept, from bit s on,
\* and the result is rounded up when the part cut off is above half of the
\* last bit kept, or is that half and the last bit kept is odd
RoundNearestEven(a, inexact) ==
    LET top == CHOOSE k \in Limbs : a[k] # 0 /\ \A j \in Limbs : j > k => a[j] = 0
        len == 15 * (top - 1)
               + CHOOSE n \in 1..15 : a[top] < 2^n /\ a[top] >= 2^(n - 1)
        s == len - 53
        bit(p) == (a[(p \div 15) + 1] \div 2^(p % 15)) % 2
        kept == [k \in Limbs |->
                    IF 15 * k <= s THEN 0
                    ELSE IF 15 * (k - 1) >= s THEN a[k]
                    ELSE (a[k] \div 2^(s - 15 * (k - 1))) * 2^(s - 15 * (k - 1))]
        last == [k \in Limbs |-> IF k = (s \div 15) + 1 THEN 2^(s % 15) ELSE 0]
    IN IF (\A k \in Limbs : a[k] = 0) \/ s <= 0 THEN a
       ELSE IF /\ bit(s - 1) = 1
               /\ \/ inexact
                  \/ \E q \in 0..(s - 2) : bit(q) = 1
                  \/ bit(s) = 1
            THEN BigAdd(kept, last)
            ELSE kept

\* x + y of two floats
FAdd(x, y) == RoundNearestEven(BigAdd(x, y), FALSE)

\* x - y of two floats, x >= y: the exact difference, limb by limb with the
\* borrow of the limbs below, rounded
FSub(x, y) ==
    LET RECURSIVE borrow(_)
        borrow(k) == IF k = 1 THEN 0
                     ELSE IF x[k - 1] - y[k - 1] - borrow(k - 1) < 0 THEN 1 ELSE 0
    IN RoundNearestEven([k \in Limbs |-> (x[k] - y[k] - borrow(k) + Base) % Base], FALSE)

\* x * n of a float and an int 0 <= n < 2^15: the exact product, rounded
FMul(x, n) ==
    LET RECURSIVE carry(_)
        carry(k) == IF k = 1 THEN 0 ELSE (x[k - 1] * n + carry(k - 1)) \div Base
    IN RoundNearestEven([k \in Limbs |-> (x[k] * n + carry(k)) % Base], FALSE)

\* x / n of a float and an int 0 < n < 2^15: the long division from the
\* highest limb down, rounded; it is inexact when it leaves a remainder
FDiv(x, n) ==
    LET RECURSIVE rem(_)
        rem(k) == IF k = 7 THEN 0 ELSE (rem(k + 1) * Base + x[k + 1]) % n
    IN RoundNearestEven([k \in Limbs |-> (rem(k) * Base + x[k]) \div n],
                        (rem(1) * Base + x[1]) % n # 0)

\* The float literals of the function, by their hundredths (0.35 is Pct[35]):
\* the float nearest to n/100
Pct == [n \in 0..100 |-> FDiv(FromInt(n), 100)]

\* iteration_progress(i): 0.95 if max_iterations <= 0, else
\* 0.35 + (0.60 * i / max_iterations)
iteration_progress(i) ==
    IF max_iterations <= 0 THEN Pct[95]
    ELSE FAdd(Pct[35], FDiv(FMul(Pct[60], i), max_iterations))

\* make_yield(status=..., progress=...): the status, the progress and the
\* values of current_iteration, reviewer_score, compliance_score and
\* combined_score at the yield (the log, the plot and the summary, text and a
\* figure made from the same values, are left out)
make_yield(status, progress, cur, reviewer, compliance, combined) ==
    [status |-> status, progress |-> progress, iteration |-> cur,
     reviewer |-> reviewer, compliance |-> compliance, combined |-> combined]

\* yield make_yield(...), with the values the step has assigned
Yield(status, progress) ==
    snapshots' = Append(snapshots,
                        make_yield(status, progress, current_iteration',
                                   reviewer_score', compliance_score', combined_score'))

\* f"Iteration {iteration}: ..."
IterationStatus(i, what) == <<"Iteration ">> \o Dec(i) \o <<": ", what>>

\* What no step of the stream assigns
stream_frame == <<config_vars, main_vars, parse_vars, store_vars, main_run, two_vars>>

\* The locals of the generator and the files and calls of its agents
stream_locals == <<iteration, current_iteration, latest_csr_path, writes, calls, agents,
                   review_report_path, reviewer_score, compliance_report_path,
                   compliance_score, combined_score, score_history>>

InitStream ==
    /\ snapshots = <<>>
    /\ agents = NewAgents
    /\ pc = "convert"
    /\ variant = "app"
    /\ settings \in {"numbers", "raw"}
    /\ max_iterations \in IF settings = "raw" THEN {0} ELSE 0..MaxStreamIterations
    /\ target_score = F(75) /\ target_confidence = F(75)
    /\ initial_csr_path = GENERATED_CSR_PATH
    /\ iteration = 0
    /\ TwoIdle /\ StoreIdle /\ main_run = NoRun
    /\ ptext = <<>> /\ pagent = "none" /\ pscore = None
    /\ review_report_path = <<>> /\ compliance_report_path = <<>>
    /\ compliance_score = F(0)
    /\ current_csr_path = None /\ final_score = F(0) /\ review_score = None
    /\ iterations_done = 0 /\ final_csr_path = None /\ result = None
    /\ latest_csr_path = None /\ combined_score = F(0) /\ reviewer_score = F(0)
    /\ current_iteration = 0 /\ score_history = <<>>
    /\ calls = <<>> /\ writes = <<>>

\* except Exception: the yield of the failure, which is the next yield after
\* a statement of the try block has raised
StreamExcept ==
    /\ pc' = "error"
    /\ Yield(<<"Error">>, Pct[100])

\* The first resumption: float(CONFIDENCE_THRESHOLD) and int(...MAX_ITERATIONS),
\* where a setting that is missing or no number raises out of the generator,
\* then the yield "Starting..."
StreamStart ==
    /\ pc = "convert"
    /\ UNCHANGED <<stream_locals, stream_frame>>
    /\ IF settings = "raw"
       THEN pc' = "crashed" /\ UNCHANGED snapshots
       ELSE pc' = "starting" /\ Yield(<<"Starting...">>, Pct[0])

\* From "Starting..." to the yield before the KnowledgeAgent
StreamKnowledgeStarting ==
    /\ pc = "starting"
    /\ UNCHANGED <<stream_locals, stream_frame>>
    /\ pc' = "knowledge"
    /\ Yield(<<"KnowledgeAgent: extracting sections">>, Pct[5])

\* knowledge_agent.extract_sections(), which reads its inputs and asks the
\* generation service, then the yield "KnowledgeAgent completed"
StreamKnowledge ==
    /\ pc = "knowledge"
    /\ UNCHANGED <<stream_locals, stream_frame>>
    /\ \E fail \in FailPoints \ {"write"} :
          IF fail = "none"
          THEN pc' = "knowledge_done" /\ Yield(<<"KnowledgeAgent completed">>, Pct[15])
          ELSE StreamExcept

\* From "KnowledgeAgent completed" to the yield before the composer
StreamComposerStarting ==
    /\ pc = "knowledge_done"
    /\ UNCHANGED <<stream_locals, stream_frame>>
    /\ pc' = "composer"
    /\ Yield(<<"DocumentComposerAgent: composing initial CSR">>, Pct[25])

\* composer_agent.compose_document(extraction), latest_csr_path =
\* initial_csr_path, then the yield "Initial CSR generated"
StreamCompose ==
    /\ pc = "composer"
    /\ UNCHANGED <<iteration, current_iteration, calls, agents, review_report_path,
                   reviewer_score, compliance_report_path, compliance_score,
                   combined_score, score_history, stream_frame>>
    /\ \E fail \in FailPoints :
          IF fail = "none"
          THEN /\ latest_csr_path' = initial_csr_path
               /\ writes' = Append(writes, initial_csr_path)
               /\ pc' = "composed"
               /\ Yield(<<"Initial CSR generated">>, Pct[35])
          ELSE /\ UNCHANGED <<latest_csr_path, writes>>
               /\ StreamExcept

\* The head of the loop, reached from "Initial CSR generated" (where the three
\* agents are created first) and from "ReviserAgent completed":
\* for iteration in range(1, max_iterations + 1): current_iteration =
\* iteration and the first yield of the iteration; when the range is
\* exhausted the final yield, "Done"
StreamLoopHead ==
    /\ pc \in {"composed", "revised"}
    /\ agents' = IF pc = "composed" THEN NewAgents ELSE agents
    /\ UNCHANGED <<latest_csr_path, writes, calls, review_report_path, reviewer_score,
                   compliance_report_path, compliance_score, combined_score,
                   score_history, stream_frame>>
    /\ IF iteration + 1 \in Range(max_iterations)
       THEN /\ iteration' = iteration + 1
            /\ current_iteration' = iteration + 1
            /\ pc' = "iteration"
            /\ Yield(IterationStatus(iteration + 1, "Reviewer + Compliance"),
                     FSub(iteration_progress(iteration + 1), Pct[10]))
       ELSE /\ UNCHANGED <<iteration, current_iteration>>
            /\ pc' = "done"
            /\ Yield(<<"Done">>, Pct[100])

\* The three paths of the iteration, then the yield before the reviewer
StreamReviewerStarting ==
    /\ pc = "iteration"
    /\ UNCHANGED <<stream_locals, stream_frame>>
    /\ pc' = "reviewing"
    /\ Yield(IterationStatus(iteration, "ReviewerAgent reviewing"),
             FSub(iteration_progress(iteration), Pct[8]))

\* review_report_path, reviewer_score = reviewer_agent.review_document(...),
\* then the yield "ReviewerAgent completed"; the generation service answers
\* with a score of 15 or of 150
StreamReviewer ==
    /\ pc = "reviewing"
    /\ UNCHANGED <<iteration, current_iteration, latest_csr_path, compliance_report_path,
                   compliance_score, combined_score, score_history, stream_frame>>
    /\ \E text \in {t \in ReviewTexts : ReviewerParseScore(t) > F(0)}, fail \in FailPoints :
          LET out == IterReviewPath(csr_dir, csr_stem, iteration)
              r == review_document(agents.reviewer, latest_csr_path, out, text, fail)
          IN /\ agents' = [agents EXCEPT !.reviewer = r.self]
             /\ calls' = Append(calls, Call("reviewer", latest_csr_path, <<>>, <<>>,
                                            out, fail, IF r.ok THEN <<r.score>> ELSE None,
                                            r.ok /\ r.scored))
             /\ writes' = writes \o r.wrote
             /\ IF r.ok
                THEN /\ review_report_path' = r.path
                     /\ reviewer_score' = r.score
                     /\ pc' = "reviewed"
                     /\ Yield(IterationStatus(iteration, "ReviewerAgent completed"),
                              FSub(iteration_progress(iteration), Pct[5]))
                ELSE /\ UNCHANGED <<review_report_path, reviewer_score>>
                     /\ StreamExcept

\* From "ReviewerAgent completed" to the yield before the compliance agent
StreamComplianceStarting ==
    /\ pc = "reviewed"
    /\ UNCHANGED <<stream_locals, stream_frame>>
    /\ pc' = "checking"
    /\ Yield(IterationStatus(iteration, "ComplianceAgent checking"),
             FSub(iteration_progress(iteration), Pct[3]))

\* compliance_report_path, compliance_score =
\* compliance_agent.check_regulatory_compliance(...), then the yield
\* "ComplianceAgent completed"; the generation service answers with a score
\* of 50
StreamCompliance ==
    /\ pc = "checking"
    /\ UNCHANGED <<iteration, current_iteration, latest_csr_path, review_report_path,
                   reviewer_score, combined_score, score_history, stream_frame>>
    /\ \E text \in {t \in ComplianceTexts : ComplianceParseScore(t) > F(0)},
          fail \in FailPoints :
          LET out == IterCompliancePath(csr_dir, csr_stem, iteration)
              r == check_regulatory_compliance(agents.compliance, latest_csr_path, out,
                                               text, fail)
          IN /\ agents' = [agents EXCEPT !.compliance = r.self]
             /\ calls' = Append(calls, Call("compliance", latest_csr_path, <<>>, <<>>,
                                            out, fail, IF r.ok THEN <<r.score>> ELSE None,
                                            r.ok /\ r.scored))
             /\ writes' = writes \o r.wrote
             /\ IF r.ok
                THEN /\ compliance_report_path' = r.path
                     /\ compliance_score' = r.score
                     /\ pc' = "checked"
                     /\ Yield(IterationStatus(iteration, "ComplianceAgent completed"),
                              FSub(iteration_progress(iteration), Pct[1]))
                ELSE /\ UNCHANGED <<compliance_report_path, compliance_score>>
                     /\ StreamExcept

\* combined_score = (reviewer_score + compliance_score) / 2.0 and
\* score_history.append(...), then the yield "Scores updated"
StreamScores ==
    /\ pc = "checked"
    /\ UNCHANGED <<iteration, current_iteration, latest_csr_path, writes, calls, agents,
                   review_report_path, reviewer_score, compliance_report_path,
                   compliance_score, stream_frame>>
    /\ combined_score' = Combined(reviewer_score, compliance_score)
    /\ score_history' = Append(score_history,
                               [iteration |-> iteration, review |-> reviewer_score,
                                compliance |-> compliance_score,
                                combined |-> combined_score'])
    /\ pc' = "scored"
    /\ Yield(IterationStatus(iteration, "Scores updated"), iteration_progress(iteration))

\* if combined_score >= target_confidence: break, which leads to the final
\* yield, "Done"; otherwise the yield before the Reviser
StreamDecide ==
    /\ pc = "scored"
    /\ UNCHANGED <<stream_locals, stream_frame>>
    /\ IF TargetReached(combined_score, target_confidence)
       THEN /\ pc' = "done"
            /\ Yield(<<"Done">>, Pct[100])
       ELSE /\ pc' = "revising"
            /\ Yield(IterationStatus(iteration, "ReviserAgent revising CSR"),
                     FAdd(iteration_progress(iteration), Pct[2]))

\* latest_csr_path = reviser_agent.revise_document(...), then the yield
\* "ReviserAgent completed"
StreamReviser ==
    /\ pc = "revising"
    /\ UNCHANGED <<iteration, current_iteration, review_report_path, reviewer_score,
                   compliance_report_path, compliance_score, combined_score,
                   score_history, stream_frame>>
    /\ \E fail \in FailPoints :
          LET out == IterCsrPath(csr_dir, csr_stem, iteration)
              r == revise_document(agents.reviser, latest_csr_path, review_report_path,
                                   compliance_report_path, out, fail)
          IN /\ agents' = [agents EXCEPT !.reviser = r.self]
             /\ calls' = Append(calls, Call("reviser", latest_csr_path, review_report_path,
                                            compliance_report_path, out, fail, None, FALSE))
             /\ writes' = writes \o r.wrote
             /\ IF r.ok
                THEN /\ latest_csr_path' = r.path
                     /\ pc' = "revised"
                     /\ Yield(IterationStatus(iteration, "ReviserAgent completed"),
                              FAdd(iteration_progress(iteration), Pct[5]))
                ELSE /\ UNCHANGED latest_csr_path
                     /\ StreamExcept

NextStream ==
    \/ StreamStart \/ StreamKnowledgeStarting \/ StreamKnowledge
    \/ StreamComposerStarting \/ StreamCompose \/ StreamLoopHead
    \/ StreamReviewerStarting \/ StreamReviewer
    \/ StreamComplianceStarting \/ StreamCompliance
    \/ StreamScores \/ StreamDecide \/ StreamReviser

SpecStream == InitStream /\ [][NextStream]_vars

\* C29: with max_iterations >= 1 the progress of the snapshots never
\* decreases from one snapshot to the next and lies within [0, 1], and the
\* last snapshot, Done or Error, has progress 1.0.
C29_ProgressNeverDecreases ==
    max_iterations >= 1 =>
        /\ \A k \in 1..Len(snapshots) :
              /\ ~BigLess(snapshots[k].progress, FromInt(0))
              /\ ~BigLess(FromInt(1), snapshots[k].progress)
        /\ \A k \in 1..(Len(snapshots) - 1) :
              ~BigLess(snapshots[k + 1].progress, snapshots[k].progress)
        /\ pc \in {"done", "error"} =>
              /\ snapshots[Len(snapshots)].status \in {<<"Done">>, <<"Error">>}
              /\ snapshots[Len(snapshots)].progress = FromInt(1)

\* ------------------------------------------------ targets outside the scale
\* C30: with max_iterations >= 1 and the evaluators' scores in [0, 100], a
\* target <= 0 makes the loop converge in iteration 1: no iteration 2 starts,
\* the Reviser is never invoked and a run that ends normally ends after one
\* iteration with the initial document as final document; a target > 100 is
\* never reached: a run that ends normally has evaluated max_iterations times
\* with each evaluator and revised max_iterations times.
C30_TargetsOutsideTheScale ==
    max_iterations >= 1 =>
        /\ \A k \in Evaluations :
              Succeeded(k) => calls[k].score[1] \in F(0)..F(100)
        /\ Target <= F(0) =>
              /\ iteration <= 1
              /\ pc # "revise"
              /\ CallsOf("reviser") = {}
              /\ Finished =>
                    /\ Converged /\ Iterations = 1
                    /\ FinalPath = initial_csr_path
                    /\ \A w \in Written : w # IterCsrPath(csr_dir, csr_stem, 1)
        /\ Target > F(100) =>
              /\ ~Converged
              /\ Finished =>
                    /\ Exhausted /\ Iterations = max_iterations
                    /\ Cardinality(CallsOf("reviewer")) = max_iterations
                    /\ Cardinality(CallsOf("compliance")) = max_iterations
                    /\ Cardinality(CallsOf("reviser")) = max_iterations
                    /\ Cardinality(VersionsProduced) = max_iterations
                    /\ \A k \in 1..Len(calls) : Succeeded(k)

\* improve_csr_until_confident has returned after one iteration in which both
\* evaluators scored 0.0, the target being 0.0
C30_Witness ==
    /\ variant = "main" /\ pc = "returned" /\ max_iterations = MaxIterations
    /\ target_score = F(0) /\ final_score = F(0)
    /\ result.iterations = 1 /\ result.final_csr_path = initial_csr_path
    /\ Len(calls) = 2

====
